---- MODULE Spec2Model ----
(***************************************************************************)
(* TinyMLDelta: the patch applier of runtime/src/tinymldelta_core.c driven *)
(* through the POSIX port of examples/posix/tinymldelta_ports_posix.c.     *)
(*                                                                         *)
(* uint32_t values are kept at their full width: a value is the pair of    *)
(* its 16-bit halves [hi, lo], and sums wrap modulo 2^32 as in C.          *)
(* Bytes are 0..255; a byte buffer is a sequence, C index i is element     *)
(* i + 1.                                                                  *)
(***************************************************************************)
EXTENDS Integers, Sequences, FiniteSets, TLC

\* ------------------------------------------------------------------------
\* Bounds of the model
\* ------------------------------------------------------------------------

\* Bytes of one slot of the modelled flash (the POSIX layout, scaled down).
SlotBytes == 4

\* TMD_SCRATCH_SZ of the modelled build (-DTMD_SCRATCH_SZ=..), smaller than a
\* slot so that the clone loop runs more than once.
ScratchBytes == 3

\* Calls of tmd_apply_patch_from_memory in one behaviour (a call cut by power
\* loss counts).
MaxCalls == 2

\* ------------------------------------------------------------------------
\* uint32_t / uint16_t arithmetic
\* ------------------------------------------------------------------------

Half == 65536

U32(h, l) == [hi |-> h, lo |-> l]

\* A small natural number as a uint32_t.
N32(n) == U32(n \div Half, n % Half)

Zero32 == U32(0, 0)

\* a + b in uint32_t (wraps modulo 2^32).
Add32(a, b) ==
  LET s == a.lo + b.lo
  IN  U32((a.hi + b.hi + (s \div Half)) % Half, s % Half)

\* a > b in uint32_t.
Gt32(a, b) == a.hi > b.hi \/ (a.hi = b.hi /\ a.lo > b.lo)

\* Little-endian decoding of 2 and 4 bytes.
LE16(b0, b1) == b0 + 256 * b1

LE32(b0, b1, b2, b3) == U32(LE16(b2, b3), LE16(b0, b1))

\* The element of a set of one: its members are values, so what is handed
\* on through such a set is computed once.
The(S) == CHOOSE x \in S : TRUE

RECURSIVE XorBits(_, _, _)
\* Bitwise exclusive or of the n low bits of a and b.
XorBits(a, b, n) ==
  IF n = 0 THEN 0
  ELSE ((a + b) % 2)
       + 2 * The({XorBits(x, y, n - 1) : x \in {a \div 2}, y \in {b \div 2}})

Xor32(a, b) == U32(XorBits(a.hi, b.hi, 16), XorBits(a.lo, b.lo, 16))

\* ------------------------------------------------------------------------
\* Status codes (tinymldelta.h) and the journal magic
\* ------------------------------------------------------------------------

TMD_STATUS_OK == "OK"
TMD_STATUS_ERR_PARAM == "ERR_PARAM"
TMD_STATUS_ERR_HDR == "ERR_HDR"
TMD_STATUS_ERR_INTEGRITY == "ERR_INTEGRITY"
TMD_STATUS_ERR_GUARDRAIL == "ERR_GUARDRAIL"
TMD_STATUS_ERR_FLASH == "ERR_FLASH"
TMD_STATUS_ERR_UNSUPPORTED == "ERR_UNSUPPORTED"
TMD_STATUS_ERR_INTERNAL == "ERR_INTERNAL"

\* 0x544D4450, 'TMDP'.
TMD_JOURNAL_MAGIC == U32(21581, 17488)

\* sizeof(tmd_hdr_t), sizeof(tmd_chunk_hdr_t), sizeof(tmd_meta_tlv_t): packed.
HdrSize == 80
ChunkHdrSize == 8
TlvHdrSize == 2

TMD_META_REQ_ARENA_BYTES == 1
TMD_META_TFLM_ABI == 2
TMD_META_OPSET_HASH == 3
TMD_META_IO_HASH == 4

\* ------------------------------------------------------------------------
\* Build configuration (tinymldelta_config.h)
\* ------------------------------------------------------------------------

\* The default build of tinymldelta_config.h, with the scratch buffer scaled.
DefaultBuild ==
  [ TMD_NO_CHECK             |-> 0,
    TMD_USE_CRC32            |-> 1,
    TMD_USE_CMAC_CRC         |-> 0,
    TMD_USE_SHA256           |-> 0,
    TMD_FEAT_CRC32           |-> 1,
    TMD_FEAT_RLE             |-> 1,
    TMD_FEAT_JOURNAL         |-> 1,
    TMD_SCRATCH_SZ           |-> ScratchBytes,
    TMD_FIRMWARE_ARENA_BYTES |-> N32(64 * 1024),
    TMD_FIRMWARE_TFLM_ABI    |-> 1,
    TMD_FIRMWARE_OPSET_HASH  |-> Zero32,
    TMD_ENFORCE_IO_HASH      |-> 0,
    TMD_FIRMWARE_IO_HASH     |-> Zero32 ]

\* A build with the given integrity selection, TMD_FEAT_CRC32 derived as
\* TMD_USE_CRC32 || TMD_USE_CMAC_CRC; the four builds that pick exactly one.
BuildWith(none, crc, cmac, sha) ==
  [DefaultBuild EXCEPT !.TMD_NO_CHECK = none, !.TMD_USE_CRC32 = crc,
                       !.TMD_USE_CMAC_CRC = cmac, !.TMD_USE_SHA256 = sha,
                       !.TMD_FEAT_CRC32 = IF crc + cmac > 0 THEN 1 ELSE 0]

IntegrityBuilds ==
  { BuildWith(1, 0, 0, 0), BuildWith(0, 1, 0, 0), BuildWith(0, 0, 1, 0),
    BuildWith(0, 0, 0, 1) }

\* ------------------------------------------------------------------------
\* Reading the borrowed patch buffer
\* ------------------------------------------------------------------------

\* patch[i] for a C index i; an index at or beyond the buffer reads `past`
\* (whatever lies behind the buffer).
ByteAt(buf, i, past) == IF i < Len(buf) THEN buf[i + 1] ELSE past

\* The n bytes buf[from .. from+n-1], all inside the buffer.
Slice(buf, from, n) == [k \in 1..n |-> buf[from + k]]

\* The fields of tmd_hdr_t the core reads, overlaid on the first 80 bytes.
tmd_hdr_t(buf) ==
  [ v          |-> buf[1],
    algo       |-> buf[2],
    chunks_n   |-> LE16(buf[3], buf[4]),
    base_len   |-> LE32(buf[5], buf[6], buf[7], buf[8]),
    target_len |-> LE32(buf[9], buf[10], buf[11], buf[12]),
    base_chk   |-> LE32(buf[13], buf[14], buf[15], buf[16]),
    target_chk |-> LE32(buf[45], buf[46], buf[47], buf[48]),
    meta_len   |-> LE16(buf[77], buf[78]),
    flags      |-> LE16(buf[79], buf[80]) ]

\* tmd_chunk_hdr_t overlaid on the 8 bytes at C offset off.
tmd_chunk_hdr_t(buf, off) ==
  [ off     |-> LE32(buf[off + 1], buf[off + 2], buf[off + 3], buf[off + 4]),
    len     |-> LE16(buf[off + 5], buf[off + 6]),
    enc     |-> buf[off + 7],
    has_crc |-> buf[off + 8] ]

\* ------------------------------------------------------------------------
\* crc32_sw of the POSIX port
\* ------------------------------------------------------------------------

\* One of the 8 shift steps: mask = -(crc & 1); crc = (crc >> 1) ^ (poly & mask).
CrcShift(crc) ==
  LET sh == U32(crc.hi \div 2, (crc.lo \div 2) + (crc.hi % 2) * 32768)
  IN  IF crc.lo % 2 = 1 THEN Xor32(sh, U32(60856, 33568)) ELSE sh

RECURSIVE CrcShifts(_, _)
\* for (int k = 0; k < 8; k++): n shift steps.
CrcShifts(crc, n) ==
  IF n = 0 THEN crc
  ELSE The({CrcShifts(c, n - 1) : c \in {CrcShift(crc)}})

\* crc ^= p[i], then the 8 shift steps.
CrcByte(crc, b) ==
  The({CrcShifts(c0, 8) : c0 \in {U32(crc.hi, XorBits(crc.lo, b, 16))}})

\* The loop over the bytes; crc is a 32-bit value at every iteration.
RECURSIVE CrcLoop(_, _, _)
CrcLoop(data, i, crc) ==
  IF i > Len(data) \/ crc.hi >= Half THEN crc
  ELSE The({CrcLoop(data, i + 1, c) : c \in {CrcByte(crc, data[i])}})

crc32_sw(data) ==
  LET c == CrcLoop(data, 1, U32(65535, 65535))
  IN  U32(65535 - c.hi, 65535 - c.lo)

\* ------------------------------------------------------------------------
\* tmd_rle_decode
\* ------------------------------------------------------------------------

\* Variant: a count of 0 is a run of 0.
RECURSIVE RleLoopCountAsIs(_, _, _, _, _, _, _, _)
RleLoopCountAsIs(buf, start, in_len, out_cap, past, i, out, ext) ==
  IF i + 1 <= in_len
  THEN LET count == ByteAt(buf, start + i, past)
           val   == ByteAt(buf, start + i + 1, past)
           run   == count
           ext2  == IF start + i + 2 > ext THEN start + i + 2 ELSE ext
       IN  IF Len(out) + run > out_cap
           THEN [rc |-> -1, out |-> out, out_len |-> 0, ext |-> ext2]
           ELSE RleLoopCountAsIs(buf, start, in_len, out_cap, past,
                                 (i + 2) % Half,
                                 out \o [k \in 1..run |-> val], ext2)
  ELSE [rc |-> 0, out |-> out, out_len |-> Len(out), ext |-> ext]

\* Variant: the capacity test looks at what is written, not at the run that
\* is about to be.
RECURSIVE RleLoopCapLate(_, _, _, _, _, _, _, _)
RleLoopCapLate(buf, start, in_len, out_cap, past, i, out, ext) ==
  IF i + 1 <= in_len
  THEN LET count == ByteAt(buf, start + i, past)
           val   == ByteAt(buf, start + i + 1, past)
           run   == IF count = 0 THEN 256 ELSE count
           ext2  == IF start + i + 2 > ext THEN start + i + 2 ELSE ext
       IN  IF Len(out) > out_cap
           THEN [rc |-> -1, out |-> out, out_len |-> 0, ext |-> ext2]
           ELSE RleLoopCapLate(buf, start, in_len, out_cap, past,
                               (i + 2) % Half,
                               out \o [k \in 1..run |-> val], ext2)
  ELSE [rc |-> 0, out |-> out, out_len |-> Len(out), ext |-> ext]

RECURSIVE RleLoop(_, _, _, _, _, _, _, _)
\* The while loop of tmd_rle_decode: `in` is buf + start, i is a uint16_t,
\* out is what has been written to the output so far (o == Len(out)), ext is
\* one more than the highest C index of buf read so far.
RleLoop(buf, start, in_len, out_cap, past, i, out, ext) ==
  IF i + 1 <= in_len
  THEN LET count == ByteAt(buf, start + i, past)
           val   == ByteAt(buf, start + i + 1, past)
           run   == IF count = 0 THEN 256 ELSE count
           ext2  == IF start + i + 2 > ext THEN start + i + 2 ELSE ext
       IN  IF Len(out) + run > out_cap
           THEN [rc |-> -1, out |-> out, out_len |-> 0, ext |-> ext2]
           ELSE RleLoop(buf, start, in_len, out_cap, past, (i + 2) % Half,
                        out \o [k \in 1..run |-> val], ext2)
  ELSE [rc |-> 0, out |-> out, out_len |-> Len(out), ext |-> ext]

\* Variant: the capacity test lets one byte more through.
tmd_rle_decode_cap_plus_one(buf, start, in_len, out_cap, past, b) ==
  IF b.TMD_FEAT_RLE = 0
  THEN [rc |-> -1, out |-> <<>>, out_len |-> 0, ext |-> 0]
  ELSE RleLoop(buf, start, in_len, out_cap + 1, past, 0, <<>>, 0)

tmd_rle_decode(buf, start, in_len, out_cap, past, b) ==
  IF b.TMD_FEAT_RLE = 0
  THEN [rc |-> -1, out |-> <<>>, out_len |-> 0, ext |-> 0]
  ELSE RleLoop(buf, start, in_len, out_cap, past, 0, <<>>, 0)

\* ------------------------------------------------------------------------
\* tmd_parse_meta
\* ------------------------------------------------------------------------

\* memset(meta, 0, sizeof(*meta)).
ZeroMeta ==
  [req_arena_bytes |-> Zero32, tflm_abi |-> 0,
   opset_hash |-> Zero32, io_hash |-> Zero32]

\* Variant: the vendor bit of the tag is not looked at.
MetaSwitchLow7(meta, tag, len, buf, val) ==
  LET u32 == LE32(buf[val + 1], buf[val + 2], buf[val + 3], buf[val + 4])
  IN  CASE tag % 128 = TMD_META_REQ_ARENA_BYTES /\ len = 4 ->
             [meta EXCEPT !.req_arena_bytes = u32]
        [] tag % 128 = TMD_META_TFLM_ABI /\ len = 2 ->
             [meta EXCEPT !.tflm_abi = LE16(buf[val + 1], buf[val + 2])]
        [] tag % 128 = TMD_META_OPSET_HASH /\ len = 4 ->
             [meta EXCEPT !.opset_hash = u32]
        [] tag % 128 = TMD_META_IO_HASH /\ len = 4 ->
             [meta EXCEPT !.io_hash = u32]
        [] OTHER -> meta

\* The switch on tlv->tag: val is the C offset of the value in buf.
MetaSwitch(meta, tag, len, buf, val) ==
  LET u32 == LE32(buf[val + 1], buf[val + 2], buf[val + 3], buf[val + 4])
  IN  CASE tag = TMD_META_REQ_ARENA_BYTES /\ len = 4 ->
             [meta EXCEPT !.req_arena_bytes = u32]
        [] tag = TMD_META_TFLM_ABI /\ len = 2 ->
             [meta EXCEPT !.tflm_abi = LE16(buf[val + 1], buf[val + 2])]
        [] tag = TMD_META_OPSET_HASH /\ len = 4 ->
             [meta EXCEPT !.opset_hash = u32]
        [] tag = TMD_META_IO_HASH /\ len = 4 ->
             [meta EXCEPT !.io_hash = u32]
        [] OTHER -> meta

\* The offsets of the block that the switch reads: val[0..len-1] in the
\* cases that decode a value, nothing otherwise.
MetaSwitchReads(tag, len, val_off) ==
  IF \/ tag \in {TMD_META_REQ_ARENA_BYTES, TMD_META_OPSET_HASH,
                 TMD_META_IO_HASH} /\ len = 4
     \/ tag = TMD_META_TFLM_ABI /\ len = 2
  THEN val_off .. (val_off + len - 1)
  ELSE {}

\* Variant: the loop runs while one byte is left.
RECURSIVE MetaLoopOneByte(_, _, _, _, _, _)
MetaLoopOneByte(buf, start, meta_len, off, meta, reads) ==
  IF off + 1 <= meta_len
  THEN LET tag     == buf[start + off + 1]
           len     == buf[start + off + 2]
           val_off == (off + TlvHdrSize) % Half
           avail   == (meta_len - val_off) % Half
           rd      == reads \cup {off, off + 1}
       IN  IF len > avail
           THEN [st |-> TMD_STATUS_ERR_HDR, meta |-> meta, reads |-> rd]
           ELSE MetaLoopOneByte(buf, start, meta_len, (val_off + len) % Half,
                         MetaSwitch(meta, tag, len, buf, start + val_off),
                         rd \cup MetaSwitchReads(tag, len, val_off))
  ELSE [st |-> TMD_STATUS_OK, meta |-> meta, reads |-> reads]

RECURSIVE MetaLoop(_, _, _, _, _, _)
\* The while loop of tmd_parse_meta over the block buf + start; reads collects
\* the offsets of the block that were read (tlv->tag, tlv->len, val[..]).
MetaLoop(buf, start, meta_len, off, meta, reads) ==
  IF off + TlvHdrSize <= meta_len
  THEN LET tag     == buf[start + off + 1]
           len     == buf[start + off + 2]
           val_off == (off + TlvHdrSize) % Half
           avail   == (meta_len - val_off) % Half
           rd      == reads \cup {off, off + 1}
       IN  IF len > avail
           THEN [st |-> TMD_STATUS_ERR_HDR, meta |-> meta, reads |-> rd]
           ELSE MetaLoop(buf, start, meta_len, (val_off + len) % Half,
                         MetaSwitch(meta, tag, len, buf, start + val_off),
                         rd \cup MetaSwitchReads(tag, len, val_off))
  ELSE [st |-> TMD_STATUS_OK, meta |-> meta, reads |-> reads]

tmd_parse_meta(buf, start, meta_len) ==
  LET r == MetaLoop(buf, start, meta_len, 0, ZeroMeta, {})
  IN  [st |-> r.st, meta |-> r.meta]

\* The offsets of the block read by tmd_parse_meta.
tmd_parse_meta_reads(buf, start, meta_len) ==
  MetaLoop(buf, start, meta_len, 0, ZeroMeta, {}).reads

\* ------------------------------------------------------------------------
\* tmd_check_guardrails
\* ------------------------------------------------------------------------

\* Variant: the arena check rejects a patch that needs exactly the arena
\* the firmware has.
tmd_check_guardrails_arena_ge(meta, b) ==
  IF meta.req_arena_bytes # Zero32
     /\ ~Gt32(b.TMD_FIRMWARE_ARENA_BYTES, meta.req_arena_bytes)
  THEN TMD_STATUS_ERR_GUARDRAIL
  ELSE IF meta.tflm_abi # 0 /\ meta.tflm_abi > b.TMD_FIRMWARE_TFLM_ABI
  THEN TMD_STATUS_ERR_GUARDRAIL
  ELSE IF b.TMD_FIRMWARE_OPSET_HASH # Zero32
          /\ meta.opset_hash # Zero32
          /\ meta.opset_hash # b.TMD_FIRMWARE_OPSET_HASH
  THEN TMD_STATUS_ERR_GUARDRAIL
  ELSE IF b.TMD_ENFORCE_IO_HASH # 0
          /\ b.TMD_FIRMWARE_IO_HASH # Zero32
          /\ meta.io_hash # Zero32
          /\ meta.io_hash # b.TMD_FIRMWARE_IO_HASH
  THEN TMD_STATUS_ERR_GUARDRAIL
  ELSE TMD_STATUS_OK

\* Variant: the ABI check is missing.
tmd_check_guardrails_no_abi(meta, b) ==
  IF meta.req_arena_bytes # Zero32
     /\ Gt32(meta.req_arena_bytes, b.TMD_FIRMWARE_ARENA_BYTES)
  THEN TMD_STATUS_ERR_GUARDRAIL
  ELSE IF b.TMD_FIRMWARE_OPSET_HASH # Zero32
          /\ meta.opset_hash # Zero32
          /\ meta.opset_hash # b.TMD_FIRMWARE_OPSET_HASH
  THEN TMD_STATUS_ERR_GUARDRAIL
  ELSE IF b.TMD_ENFORCE_IO_HASH # 0
          /\ b.TMD_FIRMWARE_IO_HASH # Zero32
          /\ meta.io_hash # Zero32
          /\ meta.io_hash # b.TMD_FIRMWARE_IO_HASH
  THEN TMD_STATUS_ERR_GUARDRAIL
  ELSE TMD_STATUS_OK

tmd_check_guardrails(meta, b) ==
  IF meta.req_arena_bytes # Zero32
     /\ Gt32(meta.req_arena_bytes, b.TMD_FIRMWARE_ARENA_BYTES)
  THEN TMD_STATUS_ERR_GUARDRAIL
  ELSE IF meta.tflm_abi # 0 /\ meta.tflm_abi > b.TMD_FIRMWARE_TFLM_ABI
  THEN TMD_STATUS_ERR_GUARDRAIL
  ELSE IF b.TMD_FIRMWARE_OPSET_HASH # Zero32
          /\ meta.opset_hash # Zero32
          /\ meta.opset_hash # b.TMD_FIRMWARE_OPSET_HASH
  THEN TMD_STATUS_ERR_GUARDRAIL
  ELSE IF b.TMD_ENFORCE_IO_HASH # 0
          /\ b.TMD_FIRMWARE_IO_HASH # Zero32
          /\ meta.io_hash # Zero32
          /\ meta.io_hash # b.TMD_FIRMWARE_IO_HASH
  THEN TMD_STATUS_ERR_GUARDRAIL
  ELSE TMD_STATUS_OK

\* ------------------------------------------------------------------------
\* tmd_apply_patch_from_memory, up to the guardrail check (no port call)
\* ------------------------------------------------------------------------

\* p is the call's argument pair: [null |-> patch == NULL, bytes |-> the
\* patch_len bytes at patch].  Gives the status, the place of the return and
\* the offset of the first chunk.
Preflight(p, b) ==
  IF p.null \/ Len(p.bytes) < HdrSize
  THEN [st |-> TMD_STATUS_ERR_PARAM, at |-> "param", off |-> 0]
  ELSE LET hdr == tmd_hdr_t(p.bytes) IN
  IF hdr.v # 1
  THEN [st |-> TMD_STATUS_ERR_HDR, at |-> "version", off |-> 0]
  ELSE IF b.TMD_USE_CRC32 = 1 /\ hdr.algo # 1
  THEN [st |-> TMD_STATUS_ERR_UNSUPPORTED, at |-> "algo", off |-> 0]
  ELSE IF HdrSize + hdr.meta_len > Len(p.bytes)
  THEN [st |-> TMD_STATUS_ERR_HDR, at |-> "meta_len", off |-> 0]
  ELSE LET pm == tmd_parse_meta(p.bytes, HdrSize, hdr.meta_len) IN
  IF pm.st # TMD_STATUS_OK
  THEN [st |-> pm.st, at |-> "tlv", off |-> 0]
  ELSE LET g == tmd_check_guardrails(pm.meta, b) IN
  IF g # TMD_STATUS_OK
  THEN [st |-> g, at |-> "guardrail", off |-> 0]
  ELSE [st |-> TMD_STATUS_OK, at |-> "", off |-> HdrSize + hdr.meta_len]

\* ------------------------------------------------------------------------
\* One iteration of the chunk loop, up to the flash_write
\* ------------------------------------------------------------------------

\* got != crc_val.
\* Variant: only the low 16 bits are compared.
CrcMismatchLow16(got, crc_val) == got.lo # crc_val.lo

CrcMismatch(got, crc_val) == got # crc_val

\* ch->off + data_len > slot_dst->size, in uint32_t.
ChunkOutOfRange(ch_off, data_len, size) ==
  Gt32(Add32(ch_off, N32(data_len)), size)

\* The body of the for loop for the chunk whose header is at C offset off of
\* buf: the status and place of an early return, or the decoded data, the
\* flash address to write it to and the offset of the next chunk.  ext is one
\* more than the highest index of buf read.
ChunkStep(buf, off, b, dst, past) ==
  LET fail(s, a) ==
        [st |-> s, at |-> a, data |-> <<>>, addr |-> Zero32, off |-> off,
         ch_off |-> Zero32, ext |-> 0]
  IN
  IF off + ChunkHdrSize > Len(buf)
  THEN fail(TMD_STATUS_ERR_HDR, "chunk_hdr")
  ELSE
  LET ch      == tmd_chunk_hdr_t(buf, off)
      off1    == off + ChunkHdrSize
      readCrc == b.TMD_FEAT_CRC32 = 1 /\ ch.has_crc # 0
  IN
  IF readCrc /\ off1 + 4 > Len(buf)
  THEN fail(TMD_STATUS_ERR_HDR, "chunk_crc")
  ELSE
  LET crc_val == IF readCrc
                 THEN LE32(buf[off1 + 1], buf[off1 + 2], buf[off1 + 3], buf[off1 + 4])
                 ELSE Zero32
      off2    == IF readCrc THEN off1 + 4 ELSE off1
  IN
  IF off2 + ch.len > Len(buf)
  THEN fail(TMD_STATUS_ERR_HDR, "chunk_payload")
  ELSE
  LET off3 == off2 + ch.len IN
  IF readCrc /\ CrcMismatch(crc32_sw(Slice(buf, off2, ch.len)), crc_val)
  THEN fail(TMD_STATUS_ERR_INTEGRITY, "crc")
  ELSE
  LET rle == tmd_rle_decode(buf, off2, ch.len, b.TMD_SCRATCH_SZ, past, b) IN
  IF ch.enc # 0 /\ ch.enc # 1
  THEN fail(TMD_STATUS_ERR_UNSUPPORTED, "enc")
  ELSE IF ch.enc = 1 /\ rle.rc # 0
  THEN [fail(TMD_STATUS_ERR_HDR, "rle") EXCEPT !.ext = rle.ext]
  ELSE
  LET data == IF ch.enc = 0 THEN Slice(buf, off2, ch.len) ELSE rle.out
      ext  == IF ch.enc = 1 /\ rle.ext > off3 THEN rle.ext ELSE off3
  IN
  IF ChunkOutOfRange(ch.off, Len(data), dst.size)
  THEN [fail(TMD_STATUS_ERR_PARAM, "chunk_range") EXCEPT !.ext = ext]
  ELSE [st |-> TMD_STATUS_OK, at |-> "", data |-> data,
        addr |-> Add32(dst.addr, ch.off), off |-> off3,
        ch_off |-> ch.off, ext |-> ext]

\* ------------------------------------------------------------------------
\* Flash layout (flash_layout.h) and the POSIX port
\* ------------------------------------------------------------------------

\* g_layout: slot A at 0, slot B right behind it, the journal behind both.
g_layout ==
  [ slotA     |-> [addr |-> N32(0), size |-> N32(SlotBytes)],
    slotB     |-> [addr |-> N32(SlotBytes), size |-> N32(SlotBytes)],
    meta_addr |-> N32(2 * SlotBytes),
    meta_size |-> Zero32 ]

\* The offsets of flash.bin that hold the two slots.
FlashCells == 0 .. (2 * SlotBytes - 1)

\* A uint32_t below 2^31 as a number.
Nat32(x) == x.hi * Half + x.lo

\* Offset a of flash.bin lies in the len bytes that start at addr
\* (fseek to addr, then len bytes: file offsets do not wrap).
InRange(a, addr, len) == addr.hi = 0 /\ addr.lo <= a /\ a - addr.lo < len

\* The range of len bytes at addr is not wholly inside the two slots.
OutsideSlots(addr, len) ==
  len > 0 /\ ~(addr.hi = 0 /\ addr.lo + len <= 2 * SlotBytes)

\* posix_flash_erase: 0xFF over the range.
posix_flash_erase(f, addr, len) ==
  [a \in DOMAIN f |-> IF InRange(a, addr, len) THEN 255 ELSE f[a]]

\* posix_flash_write: src over the range.
posix_flash_write(f, addr, src) ==
  [a \in DOMAIN f |->
     IF InRange(a, addr, Len(src)) THEN src[a - addr.lo + 1] ELSE f[a]]

\* Variant: the bytes come out in reverse order.
posix_flash_read_reversed(f, addr, len) ==
  [k \in 1..len |-> f[addr.lo + len - k]]

\* posix_flash_read of len bytes inside the file.
posix_flash_read(f, addr, len) == [k \in 1..len |-> f[addr.lo + k - 1]]

\* posix_get_active_slot: txt is the content of active_slot.txt ("none": no
\* such file).
posix_get_active_slot(txt) == IF txt = "1" THEN 1 ELSE 0

\* posix_set_active_slot: opened says whether fopen succeeded, which is also
\* the value returned.
\* Variant: the file is written although failure is reported.
posix_set_active_slot_unreported(txt, idx, opened) ==
  IF idx # 0 THEN "1" ELSE "0"

posix_set_active_slot(txt, idx, opened) ==
  IF opened THEN (IF idx # 0 THEN "1" ELSE "0") ELSE txt

\* A zeroed tmd_journal_t.
ZeroJournal ==
  [magic |-> Zero32, patch_id |-> 0, next_chunk_idx |-> 0, target_slot |-> 0]

\* posix_journal_read: the record stored at meta_addr, or failure.
posix_journal_read(region, ok) ==
  [ok |-> ok, out |-> IF ok THEN region ELSE ZeroJournal]

\* posix_journal_write: the region afterwards; ok is also the value returned.
posix_journal_write(region, in, ok) == IF ok THEN in ELSE region

\* posix_journal_clear.
posix_journal_clear(region, ok) == posix_journal_write(region, ZeroJournal, ok)

\* ------------------------------------------------------------------------
\* tmd_apply_patch_from_memory: slots and journal entry
\* ------------------------------------------------------------------------

\* inactive = (active == 0) ? 1 : 0.
InactiveOf(act) == IF act = 0 THEN 1 ELSE 0

\* slot_src = (active == 0) ? &L->slotA : &L->slotB.
SlotSrc(L, act) == IF act = 0 THEN L.slotA ELSE L.slotB

\* Variant: the destination is chosen by active, not by inactive.
SlotDstByActive(L, act) == IF act = 0 THEN L.slotA ELSE L.slotB

\* slot_dst = (inactive == 0) ? &L->slotA : &L->slotB.
SlotDst(L, act) == IF InactiveOf(act) = 0 THEN L.slotA ELSE L.slotB

\* The journal record the core holds after journal_read: a failed read or a
\* record without the magic is initialised, a valid one is kept as read.
\* Variant: the record initialised by the core has no magic.
JournalOnEntryNoMagic(rd, inactive) ==
  IF ~rd.ok \/ rd.out.magic # TMD_JOURNAL_MAGIC
  THEN [magic |-> Zero32, patch_id |-> 0, next_chunk_idx |-> 0,
        target_slot |-> inactive]
  ELSE rd.out

JournalOnEntry(rd, inactive) ==
  IF ~rd.ok \/ rd.out.magic # TMD_JOURNAL_MAGIC
  THEN [magic |-> TMD_JOURNAL_MAGIC, patch_id |-> 0, next_chunk_idx |-> 0,
        target_slot |-> inactive]
  ELSE rd.out

\* for (uint32_t idx = 0; ...): the index of the first chunk applied.
\* Variant: the loop starts at the journal's next_chunk_idx.
FirstChunkIdxFromJournal(jr) == jr.next_chunk_idx

FirstChunkIdx(jr) == 0

\* uint32_t chunk = (remaining > TMD_SCRATCH_SZ) ? TMD_SCRATCH_SZ : remaining.
CopyChunk(remaining, b) ==
  IF remaining > b.TMD_SCRATCH_SZ THEN b.TMD_SCRATCH_SZ ELSE remaining

\* ------------------------------------------------------------------------
\* The patches handed to the core: wire images (tinymldelta_internal.h)
\* built from descriptions.  A description also says what the patch means:
\* per chunk the plain bytes it stands for, and whether it is well formed.
\* ------------------------------------------------------------------------

U16Bytes(n) == <<n % 256, n \div 256>>

U32Bytes(x) == U16Bytes(x.lo) \o U16Bytes(x.hi)

Zeros(n) == [k \in 1..n |-> 0]

\* A chunk record: header, the CRC field when has_crc is set (the CRC32 of the
\* payload with the bits of flip inverted), the payload.
EncodeChunk(c) ==
  U32Bytes(c.off) \o U16Bytes(Len(c.payload)) \o <<c.enc, c.has_crc>>
  \o (IF c.has_crc # 0 THEN U32Bytes(Xor32(crc32_sw(c.payload), c.flip)) ELSE <<>>)
  \o c.payload

RECURSIVE EncodeChunks(_, _)
EncodeChunks(cs, i) ==
  IF i > Len(cs) THEN <<>> ELSE EncodeChunk(cs[i]) \o EncodeChunks(cs, i + 1)

\* The 80 header bytes, the TLV block, the chunks, trailing bytes; then the
\* last cut bytes are dropped.
EncodePatch(t) ==
  LET all == <<t.v, t.algo>> \o U16Bytes(Len(t.chunks) + t.n_extra)
             \o U32Bytes(N32(SlotBytes)) \o U32Bytes(N32(SlotBytes))
             \o U32Bytes(crc32_sw(t.gen_base)) \o Zeros(28)
             \o U32Bytes(crc32_sw(t.gen_target)) \o Zeros(28)
             \o U16Bytes(Len(t.meta) + t.meta_extra) \o <<0, 0>>
             \o t.meta \o EncodeChunks(t.chunks, 1) \o t.tail
  IN  SubSeq(all, 1, Len(all) - t.cut)

Chunk(off, enc, payload, plain, good) ==
  [off |-> off, enc |-> enc, has_crc |-> 0, flip |-> Zero32,
   payload |-> payload, plain |-> plain, good |-> good]

WithCrc(c, flip) ==
  [c EXCEPT !.has_crc = 1, !.flip = flip, !.good = c.good /\ flip = Zero32]

cRawHead == Chunk(N32(0), 0, <<222, 173>>, <<222, 173>>, TRUE)
cRawMid  == Chunk(N32(1), 0, <<239, 190>>, <<239, 190>>, TRUE)
cRawTail == Chunk(N32(SlotBytes - 1), 0, <<202>>, <<202>>, TRUE)
cRawEnd  == Chunk(N32(SlotBytes), 0, <<>>, <<>>, TRUE)
cRawFull == Chunk(N32(0), 0, [k \in 1..SlotBytes |-> 100 + k],
                  [k \in 1..SlotBytes |-> 100 + k], TRUE)
cRle     == Chunk(N32(1), 1, <<2, 170>>, <<170, 170>>, TRUE)
cRleTwo  == Chunk(N32(0), 1, <<1, 7, 1, 8>>, <<7, 8>>, TRUE)
\* RLE input of odd length: the trailing byte is to be ignored.
cRleOdd  == Chunk(N32(0), 1, <<1, 170, 1>>, <<170>>, FALSE)
\* RLE output one byte larger than the scratch buffer.
cRleOver == Chunk(N32(0), 1, <<ScratchBytes, 1, 1, 2>>, <<>>, FALSE)
\* A run of 256.
cRleBig  == Chunk(N32(0), 1, <<0, 1>>, <<>>, FALSE)
\* Ends one byte behind the slot.
cOob     == Chunk(N32(SlotBytes - 1), 0, <<11, 12>>, <<11, 12>>, FALSE)
\* off = 0xFFFFFFFF.
cWrap    == Chunk(U32(65535, 65535), 0, <<77, 78>>, <<77, 78>>, FALSE)
cEnc2    == Chunk(N32(0), 2, <<1>>, <<1>>, FALSE)
cCrcGood == WithCrc(cRawTail, Zero32)
cCrcRle  == WithCrc(cRle, Zero32)
cCrcBit0 == WithCrc(cRawTail, U32(0, 1))
cCrcBit31 == WithCrc(cRawHead, U32(32768, 0))

\* early: the stage that has to reject the patch before any flash is touched
\* ("": none).  gen_base, gen_target: the images whose CRC32 the generator
\* put into base_chk and target_chk (<<>>: CRC32 0).
Patch0 ==
  [v |-> 1, algo |-> 1, meta |-> <<>>, meta_extra |-> 0, early |-> "",
   chunks |-> <<>>, n_extra |-> 0, tail |-> <<>>, cut |-> 0, null |-> FALSE,
   gen_base |-> <<>>, gen_target |-> <<>>]

\* The image the generator of the patch with digests started from, and the
\* one it aimed at (cRawHead laid over it).
GenBase   == [k \in 1..SlotBytes |-> 15 + k]
GenTarget == [k \in 1..SlotBytes |->
                IF k <= Len(cRawHead.plain) THEN cRawHead.plain[k] ELSE 15 + k]

Of(cs) == [Patch0 EXCEPT !.chunks = cs]

WithMeta(m, early) == [Of(<<cRawHead>>) EXCEPT !.meta = m, !.early = early]

PatchTable ==
  << Of(<<>>),
     Of(<<cRawHead>>), Of(<<cRawFull>>), Of(<<cRawEnd>>), Of(<<cRle>>),
     Of(<<cRleTwo>>), Of(<<cCrcGood>>),
     Of(<<cRawHead, cRawMid>>), Of(<<cRawMid, cRawHead>>),
     Of(<<cCrcRle, cRawTail>>),
     [Of(<<cRawTail>>) EXCEPT !.tail = <<9, 9>>],
     WithMeta(<<1, 4, 0, 0, 1, 0>>, ""),
     WithMeta(<<128, 1, 7, 1, 2, 255, 255, 9>>, ""),
     WithMeta(<<1, 4, 1, 0, 1, 0>>, "guardrail"),
     WithMeta(<<2, 2, 2, 0>>, "guardrail"),
     WithMeta(<<128, 0, 1, 5, 0, 0>>, "tlv"),
     [Of(<<cRawHead>>) EXCEPT !.meta_extra = 11, !.early = "meta_len"],
     [Of(<<cRawHead>>) EXCEPT !.v = 2, !.early = "version"],
     [Of(<<cRawHead>>) EXCEPT !.algo = 0, !.early = "algo"],
     [Of(<<cRawHead>>) EXCEPT !.v = 2, !.algo = 0, !.early = "version"],
     [Of(<<cRawHead>>) EXCEPT !.null = TRUE, !.early = "param"],
     [Of(<<>>) EXCEPT !.cut = 1, !.early = "param"],
     [Of(<<cRawHead>>) EXCEPT !.n_extra = 1],
     [Of(<<cRawHead, cRawTail>>) EXCEPT !.cut = 1],
     [Of(<<cRawHead, cCrcGood>>) EXCEPT !.cut = 3],
     Of(<<cCrcBit0>>), Of(<<cRawHead, cCrcBit31>>), Of(<<cCrcBit0, cRawHead>>),
     Of(<<cRleOdd>>), Of(<<cRleOdd, cRawTail>>), Of(<<cRleOver>>),
     Of(<<cRleBig>>), Of(<<cRawHead, cEnc2>>), Of(<<cRawHead, cOob>>),
     Of(<<cWrap>>), Of(<<cRawHead, cWrap>>),
     [Of(<<cRawHead>>) EXCEPT !.gen_base = GenBase, !.gen_target = GenTarget] >>

PatchIds == 1 .. Len(PatchTable)

\* The arguments of the call for patch i: the pointer (null or not) and the
\* patch_len bytes behind it; desc keeps the description the bytes were
\* built from, which the core never looks at.
PatchArg(i) ==
  [null |-> PatchTable[i].null, bytes |-> EncodePatch(PatchTable[i]),
   desc |-> PatchTable[i]]

\* Patch i is well formed: nothing to reject it early, every chunk present,
\* in range and intact.
WellFormed(i) ==
  LET t == PatchTable[i]
  IN  /\ t.early = "" /\ t.n_extra = 0 /\ t.cut = 0
      /\ \A k \in 1..Len(t.chunks) : t.chunks[k].good

\* ------------------------------------------------------------------------
\* State
\* ------------------------------------------------------------------------

VARIABLES
  build,            \* the build configuration (fixed in a behaviour)
  layout,           \* tmd_layout() (fixed in a behaviour)
  flash,            \* flash.bin: the bytes of slot A and slot B
  stray,            \* ranges written to flash.bin outside the two slots
  active_slot_txt,  \* content of active_slot.txt
  journal,          \* the tmd_journal_t stored at meta_addr
  pc,               \* where the current call stands
  pid,              \* the patch the device is given: its place in PatchTable
  patch,            \* the arguments of the calls: PatchArg(pid)
                    \* (desc: what the bytes were built from)
  calls,            \* calls started so far
  off,              \* size_t off
  idx,              \* uint32_t idx
  active,           \* uint8_t active
  j,                \* tmd_journal_t j
  cp,               \* tmd_copy_slot's remaining, src_off, dst_off, buf
  status,           \* the value returned ("none" while running)
  retAt,            \* the place of the return statement taken
  entry,            \* history: the persisted state when the call started
  hist,             \* history: what the call has done so far
  chain,            \* history: the run of calls cut by power loss
  probe             \* a function applied on its own: its input and result

persisted == <<flash, stray, active_slot_txt, journal>>
locals    == <<off, idx, active, j, cp>>
config    == <<build, layout, pid, patch, probe>>
vars == <<build, layout, flash, stray, active_slot_txt, journal, pc, pid,
          patch, calls, off, idx, active, j, cp, status, retAt, entry, hist, chain,
          probe>>

\* The bytes of a slot.
SlotImage(f, slot) == [k \in 1..Nat32(slot.size) |-> f[slot.addr.lo + k - 1]]

Cp0 == [remaining |-> 0, src_off |-> 0, dst_off |-> 0, buf |-> <<>>]

Hist0 ==
  [ failed    |-> FALSE,  \* a port operation of this call returned false
    flashFailed |-> FALSE, \* flash_erase, flash_read, flash_write or
                          \* set_active_slot of this call returned false
    ops       |-> 0,      \* mutating port operations invoked by this call
    written   |-> {},     \* chunk indices whose flash_write succeeded
    cwrites   |-> <<>>,   \* the flash_write calls of the chunk loop
    cleared   |-> FALSE,  \* journal_clear was invoked and succeeded
    setCalled |-> FALSE,  \* set_active_slot was invoked
    jfound    |-> ZeroJournal, \* the valid record journal_read gave, if any
    jwrites   |-> <<>>,   \* the records journal_write has persisted
    ext       |-> 0,      \* one more than the highest patch index read
    getCalls  |-> 0,      \* invocations of get_active_slot
    setArg    |-> -1,     \* the index passed to set_active_slot (-1: none)
    erases    |-> <<>>,   \* the flash_erase calls: addr and len
    jops      |-> 0 ]     \* invocations of journal_read, _write and _clear

\* A byte found behind the end of the patch buffer.
PastBytes == {0, 7}

InitFlashes ==
  { [a \in FlashCells |-> IF a < SlotBytes THEN 16 + a ELSE 255],
    [a \in FlashCells |-> IF a < SlotBytes THEN 16 + a ELSE 32 + a] }

InitJournals ==
  { ZeroJournal,
    [magic |-> TMD_JOURNAL_MAGIC, patch_id |-> 0, next_chunk_idx |-> 1,
     target_slot |-> 0],
    [magic |-> TMD_JOURNAL_MAGIC, patch_id |-> 0, next_chunk_idx |-> 0,
     target_slot |-> 1] }

Snapshot ==
  [flash |-> flash, stray |-> stray, txt |-> active_slot_txt,
   journal |-> journal, active |-> posix_get_active_slot(active_slot_txt)]

NoProbe == [op |-> "none"]

InitCommon ==
  /\ probe = NoProbe
  /\ layout = g_layout
  /\ flash \in InitFlashes
  /\ stray = {}
  /\ active_slot_txt \in {"none", "0", "1"}
  /\ journal \in InitJournals
  /\ pid \in PatchIds
  /\ patch = PatchArg(pid)
  /\ pc = "idle" /\ calls = 0
  /\ off = 0 /\ idx = 0 /\ active = 0 /\ j = ZeroJournal /\ cp = Cp0
  /\ status = "none" /\ retAt = ""
  /\ entry = Snapshot
  /\ hist = Hist0
  /\ chain = [orig |-> <<>>, cuts |-> 0]

Init == build = DefaultBuild /\ InitCommon

\* ------------------------------------------------------------------------
\* tmd_apply_patch_from_memory, one action per port operation
\* ------------------------------------------------------------------------

\* return st, at the return statement named at.
ReturnWith(st, at) == pc' = "done" /\ status' = st /\ retAt' = at

\* The pc after the journal has been read (or after the clone, in a build
\* without journal): the chunk loop, or what follows it when it is over.
LoopOrEnd(i, n, b) ==
  IF i < n THEN "chunk"
  ELSE IF b.TMD_FEAT_JOURNAL = 1 THEN "journal_clear" ELSE "set_active"

\* The pc after tmd_copy_slot returned OK.
AfterClone(n, b) ==
  IF b.TMD_FEAT_JOURNAL = 1 THEN "journal_read" ELSE LoopOrEnd(0, n, b)

ChunksN == tmd_hdr_t(patch.bytes).chunks_n

\* A mutating port operation was invoked and returned ok.
Mutated(h, ok) == [h EXCEPT !.ops = @ + 1, !.failed = @ \/ ~ok]

\* A flash operation or set_active_slot returned ok.
FlashOp(h, ok) == [h EXCEPT !.flashFailed = @ \/ ~ok]

\* Variant: only a source larger than the destination is a mismatch.
SlotSizeMismatchSrcLarger(src, dst) == Gt32(src.size, dst.size)

\* slot_src->size != slot_dst->size.
SlotSizeMismatch(src, dst) == src.size # dst.size

\* The call: parameter check, header, TLVs, guardrails, get_active_slot and
\* the slot size check.
Call ==
  /\ pc = "idle" /\ calls < MaxCalls
  /\ LET pre == Preflight(patch, build)
         act == posix_get_active_slot(active_slot_txt)
         src == SlotSrc(layout, act)
         dst == SlotDst(layout, act)
     IN  /\ calls' = calls + 1
         /\ entry' = Snapshot
         /\ hist' = [Hist0 EXCEPT
                       !.getCalls = IF pre.st = TMD_STATUS_OK THEN 1 ELSE 0]
         /\ chain' = IF chain.cuts > 0 THEN chain
                     ELSE [orig |-> SlotImage(flash, src), cuts |-> 0]
         /\ IF pre.st # TMD_STATUS_OK
            THEN ReturnWith(pre.st, pre.at) /\ UNCHANGED locals
            ELSE IF SlotSizeMismatch(src, dst)
            THEN /\ ReturnWith(TMD_STATUS_ERR_PARAM, "slot_size")
                 /\ active' = act /\ off' = pre.off
                 /\ UNCHANGED <<idx, j, cp>>
            ELSE /\ pc' = "erase" /\ UNCHANGED <<status, retAt>>
                 /\ active' = act /\ off' = pre.off
                 /\ cp' = [Cp0 EXCEPT !.remaining = Nat32(src.size)]
                 /\ UNCHANGED <<idx, j>>
  /\ UNCHANGED <<persisted, config>>

\* Variant: the value flash_erase returns is not looked at.
EraseUnchecked ==
  /\ pc = "erase"
  /\ \E ok \in BOOLEAN :
       LET dst == SlotDst(layout, active) IN
       /\ flash' = IF ok THEN posix_flash_erase(flash, dst.addr, Nat32(dst.size))
                   ELSE flash
       /\ hist' = [FlashOp(Mutated(hist, ok), ok) EXCEPT
                     !.erases = Append(@, [addr |-> dst.addr, len |-> dst.size])]
       /\ pc' = IF cp.remaining > 0 THEN "clone_read"
                ELSE AfterClone(ChunksN, build)
       /\ UNCHANGED <<status, retAt>>
  /\ UNCHANGED <<stray, active_slot_txt, journal, calls, locals, entry,
                 chain, config>>

\* Variant: one buffer's worth of the destination is erased.
EraseOneBuffer ==
  /\ pc = "erase"
  /\ \E ok \in BOOLEAN :
       LET dst == SlotDst(layout, active) IN
       /\ flash' = IF ok
                   THEN posix_flash_erase(flash, dst.addr, build.TMD_SCRATCH_SZ)
                   ELSE flash
       /\ hist' = [FlashOp(Mutated(hist, ok), ok) EXCEPT
                     !.erases = Append(@, [addr |-> dst.addr,
                                           len |-> N32(build.TMD_SCRATCH_SZ)])]
       /\ IF ok
          THEN /\ pc' = IF cp.remaining > 0 THEN "clone_read"
                        ELSE AfterClone(ChunksN, build)
               /\ UNCHANGED <<status, retAt>>
          ELSE ReturnWith(TMD_STATUS_ERR_FLASH, "erase")
  /\ UNCHANGED <<stray, active_slot_txt, journal, calls, locals, entry,
                 chain, config>>

\* tmd_copy_slot: flash_erase(dst->addr, dst->size).
Erase ==
  /\ pc = "erase"
  /\ \E ok \in BOOLEAN :
       LET dst == SlotDst(layout, active) IN
       /\ flash' = IF ok THEN posix_flash_erase(flash, dst.addr, Nat32(dst.size))
                   ELSE flash
       /\ hist' = [FlashOp(Mutated(hist, ok), ok) EXCEPT
                     !.erases = Append(@, [addr |-> dst.addr, len |-> dst.size])]
       /\ IF ok
          THEN /\ pc' = IF cp.remaining > 0 THEN "clone_read"
                        ELSE AfterClone(ChunksN, build)
               /\ UNCHANGED <<status, retAt>>
          ELSE ReturnWith(TMD_STATUS_ERR_FLASH, "erase")
  /\ UNCHANGED <<stray, active_slot_txt, journal, calls, locals, entry,
                 chain, config>>

\* tmd_copy_slot: flash_read(src->addr + src_off, buf, chunk).
CloneRead ==
  /\ pc = "clone_read"
  /\ \E ok \in BOOLEAN :
       LET src == SlotSrc(layout, active)
           n   == CopyChunk(cp.remaining, build)
       IN  /\ cp' = IF ok
                    THEN [cp EXCEPT !.buf = posix_flash_read(
                                      flash, Add32(src.addr, N32(cp.src_off)), n)]
                    ELSE cp
           /\ hist' = FlashOp([hist EXCEPT !.failed = @ \/ ~ok], ok)
           /\ IF ok
              THEN pc' = "clone_write" /\ UNCHANGED <<status, retAt>>
              ELSE ReturnWith(TMD_STATUS_ERR_FLASH, "clone_read")
  /\ UNCHANGED <<persisted, calls, off, idx, active, j, entry, chain,
                 config>>

\* tmd_copy_slot: flash_write(dst->addr + dst_off, buf, chunk) and the end of
\* the loop body.
CloneWrite ==
  /\ pc = "clone_write"
  /\ \E ok \in BOOLEAN :
       LET dst == SlotDst(layout, active)
           n   == CopyChunk(cp.remaining, build)
       IN  /\ flash' = IF ok
                       THEN posix_flash_write(
                              flash, Add32(dst.addr, N32(cp.dst_off)), cp.buf)
                       ELSE flash
           /\ hist' = FlashOp(Mutated(hist, ok), ok)
           /\ IF ok
              THEN /\ cp' = [cp EXCEPT !.remaining = @ - n, !.src_off = @ + n,
                                       !.dst_off = @ + n]
                   /\ pc' = IF cp.remaining - n > 0 THEN "clone_read"
                            ELSE AfterClone(ChunksN, build)
                   /\ UNCHANGED <<status, retAt>>
              ELSE ReturnWith(TMD_STATUS_ERR_FLASH, "clone_write") /\ cp' = cp
  /\ UNCHANGED <<stray, active_slot_txt, journal, calls, off, idx, active,
                 j, entry, chain, config>>

\* journal_read(&j) and the initialisation of j.
JournalRead ==
  /\ pc = "journal_read"
  /\ \E ok \in BOOLEAN :
       LET jr == JournalOnEntry(posix_journal_read(journal, ok),
                                InactiveOf(active))
       IN  /\ j' = jr
           /\ idx' = FirstChunkIdx(jr)
           /\ hist' = [hist EXCEPT
                         !.failed = @ \/ ~ok,
                         !.jops = @ + 1,
                         !.jfound = IF ok /\ journal.magic = TMD_JOURNAL_MAGIC
                                    THEN journal ELSE ZeroJournal]
           /\ pc' = LoopOrEnd(FirstChunkIdx(jr), ChunksN, build)
  /\ UNCHANGED <<persisted, calls, off, active, cp, status, retAt, entry,
                 chain, config>>

\* One chunk: header, CRC, decoding, range check and flash_write(addr, data,
\* data_len).
ChunkWrite ==
  /\ pc = "chunk"
  /\ \E ok \in BOOLEAN, past \in PastBytes :
       LET dst == SlotDst(layout, active)
           r   == ChunkStep(patch.bytes, off, build, dst, past)
           h1  == [hist EXCEPT !.ext = IF r.ext > @ THEN r.ext ELSE @]
       IN  IF r.st # TMD_STATUS_OK
           THEN /\ ReturnWith(r.st, r.at)
                /\ hist' = h1
                /\ UNCHANGED <<flash, stray, off, idx>>
           ELSE /\ flash' = IF ok THEN posix_flash_write(flash, r.addr, r.data)
                            ELSE flash
                /\ stray' = IF ok /\ OutsideSlots(r.addr, Len(r.data))
                            THEN stray \cup {[addr |-> r.addr, len |-> Len(r.data)]}
                            ELSE stray
                /\ hist' = [FlashOp(Mutated(h1, ok), ok) EXCEPT
                              !.written = IF ok THEN @ \cup {idx} ELSE @,
                              !.cwrites = Append(@, [idx |-> idx, addr |-> r.addr,
                                                     len |-> Len(r.data),
                                                     ch_off |-> r.ch_off,
                                                     enc |-> tmd_chunk_hdr_t(
                                                               patch.bytes, off).enc])]
                /\ off' = r.off
                /\ IF ~ok
                   THEN ReturnWith(TMD_STATUS_ERR_FLASH, "chunk_write")
                        /\ idx' = idx
                   ELSE /\ UNCHANGED <<status, retAt>>
                        /\ IF build.TMD_FEAT_JOURNAL = 1
                           THEN pc' = "journal_write" /\ idx' = idx
                           ELSE /\ idx' = idx + 1
                                /\ pc' = LoopOrEnd(idx + 1, ChunksN, build)
  /\ UNCHANGED <<active_slot_txt, journal, calls, active, j, cp, entry,
                 chain, config>>

\* j.next_chunk_idx = idx + 1; journal_write(&j); the value returned is not
\* looked at.
JournalWrite ==
  /\ pc = "journal_write"
  /\ \E ok \in BOOLEAN :
       LET j1 == [j EXCEPT !.next_chunk_idx = idx + 1] IN
       /\ j' = j1
       /\ journal' = posix_journal_write(journal, j1, ok)
       /\ hist' = [Mutated(hist, ok) EXCEPT
                     !.jops = @ + 1,
                     !.jwrites = IF ok THEN Append(@, j1) ELSE @]
       /\ idx' = idx + 1
       /\ pc' = LoopOrEnd(idx + 1, ChunksN, build)
  /\ UNCHANGED <<flash, stray, active_slot_txt, calls, off, active, cp,
                 status, retAt, entry, chain, config>>

\* journal_clear(); the value returned is not looked at.
JournalClear ==
  /\ pc = "journal_clear"
  /\ \E ok \in BOOLEAN :
       /\ journal' = posix_journal_clear(journal, ok)
       /\ hist' = [Mutated(hist, ok) EXCEPT !.jops = @ + 1, !.cleared = ok]
       /\ pc' = "set_active"
  /\ UNCHANGED <<flash, stray, active_slot_txt, calls, locals, status,
                 retAt, entry, chain, config>>

\* set_active_slot(inactive) and the return.
SetActive ==
  /\ pc = "set_active"
  /\ \E ok \in BOOLEAN :
       /\ active_slot_txt' =
            posix_set_active_slot(active_slot_txt, InactiveOf(active), ok)
       /\ hist' = [FlashOp(Mutated(hist, ok), ok) EXCEPT
                     !.setCalled = TRUE, !.setArg = InactiveOf(active)]
       /\ IF ok THEN ReturnWith(TMD_STATUS_OK, "ok")
          ELSE ReturnWith(TMD_STATUS_ERR_FLASH, "set_active")
  /\ UNCHANGED <<flash, stray, journal, calls, locals, entry, chain,
                 config>>

\* The call has returned; the caller may call again.
Return ==
  /\ pc = "done"
  /\ pc' = "idle" /\ status' = "none" /\ retAt' = ""
  /\ off' = 0 /\ idx' = 0 /\ active' = 0 /\ j' = ZeroJournal /\ cp' = Cp0
  /\ chain' = [chain EXCEPT !.cuts = 0]
  /\ entry' = Snapshot /\ hist' = Hist0
  /\ UNCHANGED <<persisted, calls, config>>

\* Power is lost during a call: RAM is gone, flash.bin and active_slot.txt
\* stay as they are.
PowerLoss ==
  /\ pc # "idle"
  /\ pc' = "idle" /\ status' = "none" /\ retAt' = ""
  /\ off' = 0 /\ idx' = 0 /\ active' = 0 /\ j' = ZeroJournal /\ cp' = Cp0
  /\ chain' = [chain EXCEPT !.cuts = @ + 1]
  /\ entry' = Snapshot /\ hist' = Hist0
  /\ UNCHANGED <<persisted, calls, config>>

Next ==
  \/ Call
  \/ Erase
  \/ CloneRead
  \/ CloneWrite
  \/ JournalRead
  \/ ChunkWrite
  \/ JournalWrite
  \/ JournalClear
  \/ SetActive
  \/ Return
  \/ PowerLoss

Spec == Init /\ [][Next]_vars

\* ------------------------------------------------------------------------
\* What a patch means, from its description (not from the code's path)
\* ------------------------------------------------------------------------

Chunks == patch.desc.chunks

\* Chunk c covers byte k (from 0) of the slot, offsets taken as integers.
Covers(c, k) == c.off.hi = 0 /\ c.off.lo <= k /\ k < c.off.lo + Len(c.plain)

\* base with the plain bytes of every chunk of cs laid over it at the chunk's
\* off, in chunk order: where chunks overlap the later one wins.
PatchedImage(base, cs) ==
  [k1 \in 1..Len(base) |->
     LET hits == {n \in 1..Len(cs) : Covers(cs[n], k1 - 1)}
     IN  IF hits = {} THEN base[k1]
         ELSE LET n == CHOOSE m \in hits : \A o \in hits : o <= m
              IN  cs[n].plain[k1 - cs[n].off.lo]]

SlotOf(i) == IF i = 0 THEN layout.slotA ELSE layout.slotB

\* The image the active slot held when the call started.
EntryImage == SlotImage(entry.flash, SlotOf(entry.active))

\* The index (from 0) of the first chunk whose stored CRC has a flipped bit,
\* in a patch that is sound up to that chunk; -1 if there is none.
FirstBadCrc ==
  LET t   == patch.desc
      bad == {n \in 1..Len(t.chunks) :
                /\ t.chunks[n].has_crc # 0 /\ t.chunks[n].flip # Zero32
                /\ \A m \in 1..(n - 1) : t.chunks[m].good}
  IN  IF t.early # "" \/ t.cut # 0 \/ bad = {} THEN -1
      ELSE (CHOOSE n \in bad : \A m \in bad : n <= m) - 1

\* ------------------------------------------------------------------------
\* Properties
\* ------------------------------------------------------------------------

\* C1: after a call that returned a status other than OK, whatever the patch
\* and whichever port operations failed, get_active_slot gives the value it
\* gave before the call.
C1_FailedApplyKeepsActive ==
  (pc = "done" /\ status # TMD_STATUS_OK)
    => posix_get_active_slot(active_slot_txt) = entry.active

\* The call went as far as set_active_slot, which failed.
C1_Witness ==
  /\ pc = "done" /\ status = TMD_STATUS_ERR_FLASH /\ retAt = "set_active"
  /\ hist.setCalled /\ hist.written # {}

\* C2: set_active_slot is invoked only after every chunk 0..chunks_n-1 has
\* been written and, journaling being enabled, after the journal is cleared:
\* the record stored is not a valid one any more.
C2_FlipOnlyAfterChunksAndClear ==
  hist.setCalled =>
    /\ hist.written = 0 .. (ChunksN - 1)
    /\ build.TMD_FEAT_JOURNAL = 1 => journal.magic # TMD_JOURNAL_MAGIC

\* C3: every flash_write of the chunk loop addresses only bytes of the
\* destination slot, for any off and any decoded length.
C3_ChunkWritesInsideDst ==
  \A n \in 1..Len(hist.cwrites) :
    LET w   == hist.cwrites[n]
        dst == SlotDst(layout, active)
    IN  w.len > 0 =>
          /\ w.addr.hi = 0
          /\ dst.addr.lo <= w.addr.lo
          /\ w.addr.lo + w.len <= dst.addr.lo + Nat32(dst.size)

\* C4: during a call the bytes of the slot that was active at entry are
\* neither erased nor written, and nothing is written outside the two slots.
C4_ActiveSlotNotWritten ==
  pc # "idle" =>
    /\ SlotImage(flash, SlotOf(entry.active)) = EntryImage
    /\ stray = entry.stray

\* C5: when the call returns OK the formerly inactive slot holds the former
\* active image with every chunk's decoded payload at its off (later chunks
\* win, bytes no chunk covers are the active slot's), and get_active_slot
\* gives the formerly inactive index.
C5_OkGivesPatchedImage ==
  (pc = "done" /\ status = TMD_STATUS_OK) =>
    /\ SlotImage(flash, SlotOf(InactiveOf(entry.active)))
         = PatchedImage(EntryImage, Chunks)
    /\ posix_get_active_slot(active_slot_txt) = InactiveOf(entry.active)

\* C6: with power loss possible between any two port operations, the slot
\* the active-slot indicator names always holds a complete image: the
\* pre-apply image until set_active_slot succeeds, the patched image after.
C6_IndicatedSlotComplete ==
  pc # "idle" =>
    LET a == posix_get_active_slot(active_slot_txt) IN
    SlotImage(flash, SlotOf(a)) =
      IF a = entry.active THEN EntryImage
      ELSE PatchedImage(EntryImage, Chunks)

\* C7: an apply of a valid patch cut by power loss, at whatever step, is
\* followed by an apply of the same patch without port failure: that one
\* returns OK and the slot active afterwards holds the patch's chunks laid
\* over the original active image.
C7_RetryAfterPowerLoss ==
  (pc = "done" /\ chain.cuts >= 1 /\ WellFormed(pid) /\ ~hist.failed) =>
    /\ status = TMD_STATUS_OK
    /\ SlotImage(flash, SlotOf(posix_get_active_slot(active_slot_txt)))
         = PatchedImage(chain.orig, Chunks)

\* The power was lost between the two chunks of the patch: the journal said
\* next_chunk_idx = 1 and the inactive slot held the first chunk only.
C7_Witness ==
  /\ pc = "done" /\ chain.cuts >= 1 /\ WellFormed(pid) /\ ~hist.failed
  /\ status = TMD_STATUS_OK
  /\ Len(Chunks) = 2
  /\ entry.journal.magic = TMD_JOURNAL_MAGIC
  /\ entry.journal.next_chunk_idx = 1
  /\ entry.journal.target_slot = InactiveOf(entry.active)
  /\ SlotImage(entry.flash, SlotOf(InactiveOf(entry.active)))
       = PatchedImage(chain.orig, <<Chunks[1]>>)
  /\ PatchedImage(chain.orig, <<Chunks[1]>>) # PatchedImage(chain.orig, Chunks)

EarlyStages == {"param", "version", "algo", "meta_len", "tlv", "guardrail"}

NothingMutated ==
  /\ hist.ops = 0
  /\ flash = entry.flash /\ stray = entry.stray
  /\ journal = entry.journal
  /\ active_slot_txt = entry.txt

\* C8: no mutating port operation is invoked before the parameter check, the
\* header validation, the TLV parse and the guardrail check have passed: a
\* call that returns from one of these stages, and any call given a patch
\* that one of them has to reject, leaves both slots, the journal and the
\* active-slot indicator as they were.
C8_EarlyRejectMutatesNothing ==
  /\ (pc = "done" /\ retAt \in EarlyStages) => NothingMutated
  /\ (pc # "idle" /\ patch.desc.early # "") =>
       pc = "done" /\ retAt \in EarlyStages /\ NothingMutated

\* A guardrail reject on a device whose inactive slot and journal hold data.
C8_Witness ==
  /\ pc = "done" /\ retAt = "guardrail"
  /\ status = TMD_STATUS_ERR_GUARDRAIL
  /\ journal.magic = TMD_JOURNAL_MAGIC
  /\ flash[SlotBytes] # 255

\* C10: a chunk with has_crc != 0 whose stored CRC differs in some bit from
\* the CRC32 of its encoded payload makes the call return ERR_INTEGRITY:
\* neither that chunk nor a later one is written, the journal is not cleared
\* and the active slot does not change.
C10_CrcMismatchStopsApply ==
  (FirstBadCrc >= 0 /\ pc # "idle") =>
    /\ \A n \in hist.written : n < FirstBadCrc
    /\ pc \notin {"journal_clear", "set_active"}
    /\ ~hist.cleared /\ ~hist.setCalled
    /\ posix_get_active_slot(active_slot_txt) = entry.active
    /\ pc = "done" =>
         \/ /\ status = TMD_STATUS_ERR_INTEGRITY /\ retAt = "crc"
            /\ idx = FirstBadCrc
         \/ status = TMD_STATUS_ERR_FLASH /\ hist.failed

\* Bit 31 of the stored CRC of the second chunk is flipped; the first chunk
\* has been written.
C10_Witness ==
  /\ pc = "done" /\ status = TMD_STATUS_ERR_INTEGRITY /\ retAt = "crc"
  /\ FirstBadCrc = 1 /\ hist.written = {0}
  /\ Chunks[2].flip = U32(32768, 0)

\* ------------------------------------------------------------------------
\* tmd_check_guardrails on its own
\* ------------------------------------------------------------------------

GuardMetas ==
  [ req_arena_bytes : {Zero32, U32(0, 65535), U32(1, 0), U32(1, 1), U32(2, 0)},
    tflm_abi        : {0, 1, 2, 3},
    opset_hash      : {Zero32, U32(0, 5), U32(5, 0)},
    io_hash         : {Zero32, U32(0, 5), U32(5, 0)} ]

GuardBuilds ==
  { [DefaultBuild EXCEPT !.TMD_FIRMWARE_ARENA_BYTES = a,
                         !.TMD_FIRMWARE_TFLM_ABI = abi,
                         !.TMD_FIRMWARE_OPSET_HASH = o,
                         !.TMD_ENFORCE_IO_HASH = e,
                         !.TMD_FIRMWARE_IO_HASH = io] :
      a \in {N32(64 * 1024), U32(0, 65535)}, abi \in {1, 2},
      o \in {Zero32, U32(0, 5)}, e \in {0, 1}, io \in {Zero32, U32(5, 0)} }

InitGuard ==
  /\ build \in GuardBuilds
  /\ probe \in [op : {"guardrails"}, meta : GuardMetas, done : {FALSE},
                out : {"none"}]
  /\ layout = g_layout
  /\ flash = [a \in FlashCells |-> 255]
  /\ stray = {}
  /\ active_slot_txt = "none"
  /\ journal = ZeroJournal
  /\ pid = 1
  /\ patch = PatchArg(1)
  /\ pc = "idle" /\ calls = 0
  /\ off = 0 /\ idx = 0 /\ active = 0 /\ j = ZeroJournal /\ cp = Cp0
  /\ status = "none" /\ retAt = ""
  /\ entry = Snapshot
  /\ hist = Hist0
  /\ chain = [orig |-> <<>>, cuts |-> 0]

\* tmd_check_guardrails(&meta).
CheckGuardrails ==
  /\ probe.op = "guardrails" /\ ~probe.done
  /\ probe' = [probe EXCEPT !.out = tmd_check_guardrails(probe.meta, build),
                            !.done = TRUE]
  /\ UNCHANGED <<build, layout, flash, stray, active_slot_txt, journal, pc,
                 pid, patch, calls, off, idx, active, j, cp, status, retAt,
                 entry, hist, chain>>

NextGuard == CheckGuardrails

SpecGuard == InitGuard /\ [][NextGuard]_vars

\* The four reasons to reject, in integers.
ArenaTooSmall(m, b) ==
  /\ m.req_arena_bytes # Zero32
  /\ Nat32(m.req_arena_bytes) > Nat32(b.TMD_FIRMWARE_ARENA_BYTES)

AbiTooNew(m, b) == m.tflm_abi # 0 /\ m.tflm_abi > b.TMD_FIRMWARE_TFLM_ABI

OpsetDiffers(m, b) ==
  /\ b.TMD_FIRMWARE_OPSET_HASH # Zero32 /\ m.opset_hash # Zero32
  /\ m.opset_hash # b.TMD_FIRMWARE_OPSET_HASH

IoDiffers(m, b) ==
  /\ b.TMD_ENFORCE_IO_HASH # 0
  /\ b.TMD_FIRMWARE_IO_HASH # Zero32 /\ m.io_hash # Zero32
  /\ m.io_hash # b.TMD_FIRMWARE_IO_HASH

\* C9: the guardrail check returns ERR_GUARDRAIL exactly when the arena
\* needed is nonzero and larger than the firmware's, or the ABI is nonzero
\* and newer than the firmware's, or both op-set hashes are nonzero and
\* differ, or IO-hash enforcement is on and both IO hashes are nonzero and
\* differ; it returns OK otherwise.
C9_GuardrailExactly ==
  (probe.op = "guardrails" /\ probe.done) =>
    probe.out =
      IF \/ ArenaTooSmall(probe.meta, build) \/ AbiTooNew(probe.meta, build)
         \/ OpsetDiffers(probe.meta, build) \/ IoDiffers(probe.meta, build)
      THEN TMD_STATUS_ERR_GUARDRAIL
      ELSE TMD_STATUS_OK

\* The arena needed is exactly the firmware's, the op-set hashes differ but
\* the firmware's is zero, and only the enforced IO hash rejects.
C9_Witness ==
  /\ probe.op = "guardrails" /\ probe.done
  /\ probe.out = TMD_STATUS_ERR_GUARDRAIL
  /\ probe.meta.req_arena_bytes = build.TMD_FIRMWARE_ARENA_BYTES
  /\ ~AbiTooNew(probe.meta, build)
  /\ probe.meta.opset_hash # Zero32
  /\ build.TMD_FIRMWARE_OPSET_HASH = Zero32
  /\ IoDiffers(probe.meta, build)

\* ------------------------------------------------------------------------
\* Header validation on its own
\* ------------------------------------------------------------------------

\* A device at rest: nothing but the probe moves.
IdleDevice ==
  /\ layout = g_layout
  /\ flash = [a \in FlashCells |-> 255]
  /\ stray = {}
  /\ active_slot_txt = "none"
  /\ journal = ZeroJournal
  /\ pid = 1
  /\ patch = PatchArg(1)
  /\ pc = "idle" /\ calls = 0
  /\ off = 0 /\ idx = 0 /\ active = 0 /\ j = ZeroJournal /\ cp = Cp0
  /\ status = "none" /\ retAt = ""
  /\ entry = Snapshot
  /\ hist = Hist0
  /\ chain = [orig |-> <<>>, cuts |-> 0]

device == <<layout, flash, stray, active_slot_txt, journal, pc, pid, patch,
            calls, off, idx, active, j, cp, status, retAt, entry, hist,
            chain>>

\* Patches for the header checks: one RAW chunk, any of version, algo,
\* pointer, length and meta_len wrong.
HdrTemplates ==
  { [Of(<<cRawHead>>) EXCEPT !.v = v, !.algo = a, !.null = n, !.cut = c,
                            !.meta_extra = m] :
      v \in {0, 1, 2}, a \in 0..4, n \in BOOLEAN, c \in {0, 1, 11},
      m \in {0, 11} }

InitHdr ==
  /\ build \in IntegrityBuilds
  /\ probe \in [op : {"header"}, t : HdrTemplates, done : {FALSE},
                out : {[st |-> "none", at |-> "", off |-> 0]}]
  /\ IdleDevice

\* tmd_apply_patch_from_memory up to the guardrail check.
CheckHeader ==
  /\ probe.op = "header" /\ ~probe.done
  /\ probe' = [probe EXCEPT
                 !.out = Preflight([null |-> probe.t.null,
                                    bytes |-> EncodePatch(probe.t)], build),
                 !.done = TRUE]
  /\ UNCHANGED <<build, device>>

NextHdr == CheckHeader

SpecHdr == InitHdr /\ [][NextHdr]_vars

\* The value of the algo field that stands for the build's selection.
BuildAlgo(b) ==
  IF b.TMD_NO_CHECK = 1 THEN 0
  ELSE IF b.TMD_USE_CRC32 = 1 THEN 1
  ELSE IF b.TMD_USE_SHA256 = 1 THEN 2
  ELSE 3

HdrStages == {"param", "version", "algo", "meta_len"}

\* The status header validation has to give for template t in build b
\* ("pass": none of the four checks rejects).
ExpectedHdrStatus(t, b) ==
  LET len == Len(EncodePatch(t)) IN
  IF t.null \/ len < 80 THEN TMD_STATUS_ERR_PARAM
  ELSE IF t.v # 1 THEN TMD_STATUS_ERR_HDR
  ELSE IF t.algo # BuildAlgo(b) THEN TMD_STATUS_ERR_UNSUPPORTED
  ELSE IF 80 + Len(t.meta) + t.meta_extra > len THEN TMD_STATUS_ERR_HDR
  ELSE "pass"

\* C11: header validation gives, in this order of precedence, ERR_PARAM for
\* a null pointer or patch_len < 80, ERR_HDR for v != 1, ERR_UNSUPPORTED for
\* an algo that is not the build's algorithm, ERR_HDR for
\* 80 + meta_len > patch_len; bad version and wrong algo together give
\* ERR_HDR.
C11_HeaderPrecedence ==
  (probe.op = "header" /\ probe.done) =>
    LET want == ExpectedHdrStatus(probe.t, build) IN
    IF want = "pass" THEN probe.out.at \notin HdrStages
    ELSE probe.out.st = want /\ probe.out.at \in HdrStages

\* C12: in each of the four integrity builds a version-1 patch whose algo
\* field is not the build's value is rejected with ERR_UNSUPPORTED when the
\* header is parsed.
C12_AlgoMatchesBuild ==
  (/\ probe.op = "header" /\ probe.done
   /\ ~probe.t.null /\ Len(EncodePatch(probe.t)) >= 80
   /\ probe.t.v = 1 /\ probe.t.algo # BuildAlgo(build)) =>
    probe.out.st = TMD_STATUS_ERR_UNSUPPORTED /\ probe.out.at = "algo"

\* The first len bytes of img have the CRC32 chk.
DigestOk(len, chk, img) ==
  /\ len.hi = 0 /\ len.lo <= Len(img)
  /\ crc32_sw(SubSeq(img, 1, len.lo)) = chk

\* C13: in a CRC32 build set_active_slot is invoked only if the image in the
\* active slot matches base_len and base_chk of the header and the patched
\* image in the inactive slot matches target_len and target_chk: a patch
\* made from another base image does not become active.
C13_HeaderDigestsValidated ==
  (build.TMD_USE_CRC32 = 1 /\ hist.setCalled) =>
    LET hdr == tmd_hdr_t(patch.bytes) IN
    /\ DigestOk(hdr.base_len, hdr.base_chk, EntryImage)
    /\ DigestOk(hdr.target_len, hdr.target_chk,
                SlotImage(flash, SlotOf(InactiveOf(entry.active))))

\* C14: every journal record persisted during an apply names the inactive
\* slot this apply writes to, whatever the journal held on entry: a valid
\* record found on entry that names the other slot is re-initialised.
C14_JournalNamesTargetSlot ==
  \A n \in 1..Len(hist.jwrites) :
    hist.jwrites[n].target_slot = InactiveOf(active)

\* C15: with journaling enabled, once chunk idx has been written the record
\* persisted has the magic and next_chunk_idx = idx + 1, so between chunks
\* the persisted next_chunk_idx is the number of chunks written so far; the
\* records are written in the order 1, 2, ..., chunks_n whatever the journal
\* held on entry.
C15_JournalCountsChunks ==
  /\ (build.TMD_FEAT_JOURNAL = 1 /\ pc \in {"chunk", "journal_clear"}
      /\ idx >= 1) =>
       /\ journal.magic = TMD_JOURNAL_MAGIC
       /\ journal.next_chunk_idx = idx
       /\ Cardinality(hist.written) = idx
  /\ \A n \in 1..Len(hist.jwrites) : hist.jwrites[n].next_chunk_idx = n

\* The erase of the inactive slot has been done and set_active_slot has not
\* been invoked yet.
ErasedNotFlipped ==
  pc \in {"clone_read", "clone_write", "journal_read", "chunk",
          "journal_write", "journal_clear", "set_active"}

\* C16 as stated: starting from a cleared journal, at every point after the
\* erase of the inactive slot and before set_active_slot, where power may be
\* lost, the persisted journal record is valid.
C16_JournalValidWhileApplying ==
  (entry.journal.magic # TMD_JOURNAL_MAGIC /\ ErasedNotFlipped) =>
    journal.magic = TMD_JOURNAL_MAGIC

\* C16, amended: from the first journal_write of the apply that succeeded
\* until journal_clear is invoked, the persisted record is the last one
\* written and is valid; until a journal_write has succeeded (the whole
\* clone, and the first chunk) the persisted journal is what it was on
\* entry, so not valid if it was cleared.
C16_JournalValidOnceWritten ==
  /\ (hist.jwrites # <<>> /\ pc \in {"chunk", "journal_write", "journal_clear"})
       => /\ journal = hist.jwrites[Len(hist.jwrites)]
          /\ journal.magic = TMD_JOURNAL_MAGIC
  /\ (hist.jwrites = <<>> /\ ErasedNotFlipped /\ pc # "set_active")
       => journal = entry.journal

\* Between the two chunks of a patch, on a device whose journal was cleared.
C16_Witness ==
  /\ pc = "chunk" /\ idx = 1 /\ ChunksN = 2
  /\ entry.journal = ZeroJournal
  /\ hist.jwrites # <<>>
  /\ journal.magic = TMD_JOURNAL_MAGIC

\* What journal_read may find at meta_addr.
AnyJournal ==
  {ZeroJournal} \cup
  [magic : {TMD_JOURNAL_MAGIC}, patch_id : {0}, next_chunk_idx : 0..3,
   target_slot : {0, 1}]

C18_ResumesFromNextChunk ==
  /\ (pc = "chunk" /\ hist.cwrites = <<>>) => idx = hist.jfound.next_chunk_idx
  /\ \A n \in 1..Len(hist.cwrites) :
       hist.cwrites[n].idx >= hist.jfound.next_chunk_idx

\* The sum of the runs of the (count, value) pairs of an RLE payload from
\* index i on, a count of 0 standing for 256.
RECURSIVE RunSum(_, _)
RunSum(payload, i) ==
  IF i + 1 > Len(payload) THEN 0
  ELSE (IF payload[i] = 0 THEN 256 ELSE payload[i]) + RunSum(payload, i + 2)

Tlv(tag, val) == [tag |-> tag, val |-> val]

\* Known tags with the expected width.
TlvsKnown ==
  { Tlv(1, <<0, 0, 1, 0>>), Tlv(1, <<1, 0, 0, 0>>), Tlv(2, <<2, 0>>),
    Tlv(3, <<5, 0, 0, 0>>), Tlv(4, <<0, 0, 5, 0>>) }

\* Known tags with another width.
TlvsWrongWidth ==
  { Tlv(1, <<9>>), Tlv(2, <<1, 2, 3, 4>>), Tlv(3, <<>>), Tlv(4, <<7, 7>>),
    Tlv(2, <<3>>) }

\* Unknown and vendor tags.
TlvsUnknown ==
  { Tlv(0, <<>>), Tlv(5, <<1, 2, 3, 4>>), Tlv(127, <<1>>), Tlv(130, <<2, 0>>),
    Tlv(255, <<6, 6, 6, 6>>) }

MaxTlvs == 3

TlvLists ==
  UNION { [1..n -> TlvsKnown \cup TlvsWrongWidth \cup TlvsUnknown] :
            n \in 0..MaxTlvs }

\* What follows the last TLV in the block: nothing, one stray byte, or a TLV
\* that declares more bytes than are left.
Trailers == { <<>>, <<9>>, <<1, 4, 0, 0>>, <<5, 1>>, <<200, 255, 1, 2, 3>> }

\* The bytes of the patch that follow the meta block (chunk headers).
BehindMeta == <<0, 0, 0, 0>>

RECURSIVE EncodeTlvs(_, _)
EncodeTlvs(tlvs, i) ==
  IF i > Len(tlvs) THEN <<>>
  ELSE <<tlvs[i].tag, Len(tlvs[i].val)>> \o tlvs[i].val
       \o EncodeTlvs(tlvs, i + 1)

InitMeta ==
  /\ build = DefaultBuild
  /\ probe \in [op : {"meta"}, tlvs : TlvLists, trailer : Trailers,
                done : {FALSE}, out : {[st |-> "none", meta |-> ZeroMeta]},
                meta_len : {0}, reads : {{}}]
  /\ IdleDevice

\* tmd_parse_meta(patch + off, hdr->meta_len, &meta).
ParseMeta ==
  /\ probe.op = "meta" /\ ~probe.done
  /\ LET block == EncodeTlvs(probe.tlvs, 1) \o probe.trailer
         buf   == block \o BehindMeta
     IN  probe' = [probe EXCEPT
                     !.out = tmd_parse_meta(buf, 0, Len(block)),
                     !.meta_len = Len(block),
                     !.reads = tmd_parse_meta_reads(buf, 0, Len(block)),
                     !.done = TRUE]
  /\ UNCHANGED <<build, device>>

NextMeta == ParseMeta

SpecMeta == InitMeta /\ [][NextMeta]_vars

\* The TLV sets a field of MetaState: a known tag with its width.
SetsField(tlv) ==
  \/ tlv.tag \in {1, 3, 4} /\ Len(tlv.val) = 4
  \/ tlv.tag = 2 /\ Len(tlv.val) = 2

\* C20: TLVs with an unknown or vendor tag, and TLVs with a known tag whose
\* len is not the expected width, leave MetaState as it is: the parse gives
\* what it gives for the block with those TLVs removed, and they cause no
\* error.
C20_IgnoredTlvsHaveNoEffect ==
  (probe.op = "meta" /\ probe.done) =>
    LET kept  == EncodeTlvs(SelectSeq(probe.tlvs, SetsField), 1)
                   \o probe.trailer
    IN  /\ probe.out = tmd_parse_meta(kept, 0, Len(kept))
        /\ Len(probe.trailer) < 2 => probe.out.st = TMD_STATUS_OK

\* A vendor TLV, a known tag of the wrong width and a known tag of the right
\* width in one block, parsed without error.
C20_Witness ==
  /\ probe.op = "meta" /\ probe.done
  /\ probe.tlvs = <<Tlv(130, <<2, 0>>), Tlv(2, <<3>>), Tlv(3, <<5, 0, 0, 0>>)>>
  /\ probe.trailer = <<9>>
  /\ probe.out = [st |-> TMD_STATUS_OK,
                  meta |-> [ZeroMeta EXCEPT !.opset_hash = U32(0, 5)]]

\* The trailer is a TLV whose len is larger than what is left behind its
\* tag/len pair.
TrailerOverlong(tr) == Len(tr) >= TlvHdrSize /\ tr[2] > Len(tr) - TlvHdrSize

\* C21: the parser returns ERR_HDR exactly when a TLV reached by the walk
\* declares a len greater than the bytes left in the block behind its tag/len
\* pair; with fewer than 2 bytes left it stops with OK; and every offset it
\* reads is below meta_len.
C21_TlvLenBeyondBlock ==
  (probe.op = "meta" /\ probe.done) =>
    /\ probe.out.st = IF TrailerOverlong(probe.trailer)
                      THEN TMD_STATUS_ERR_HDR ELSE TMD_STATUS_OK
    /\ \A o \in probe.reads : o >= 0 /\ o < probe.meta_len

\* Two good TLVs, then an unknown tag declaring one byte with none left: the
\* tag/len pair at the end of the block was read and the parse failed.
C21_Witness ==
  /\ probe.op = "meta" /\ probe.done
  /\ probe.tlvs = <<Tlv(2, <<2, 0>>), Tlv(3, <<5, 0, 0, 0>>)>>
  /\ probe.trailer = <<5, 1>>
  /\ probe.out.st = TMD_STATUS_ERR_HDR
  /\ probe.meta_len = 12
  /\ probe.reads = {0, 1, 2, 3, 4, 5, 6, 7, 8, 9, 10, 11}

\* ------------------------------------------------------------------------
\* Layouts with other slot sizes
\* ------------------------------------------------------------------------

\* tmd_layout() results: slot A and slot B where g_layout has them, each of
\* any size up to SlotBytes.
Layouts ==
  { [g_layout EXCEPT !.slotA.size = N32(a), !.slotB.size = N32(b)] :
      a \in 0..SlotBytes, b \in 0..SlotBytes }

\* A patch without chunks, one with a chunk at the head of the slot, one
\* that writes nothing at the end of a full-size slot, and one the
\* guardrails reject.
LayoutPatchIds == {1, 2, 4, 14}

InitLayout ==
  /\ build = DefaultBuild
  /\ probe = NoProbe
  /\ layout \in Layouts
  /\ flash \in InitFlashes
  /\ stray = {}
  /\ active_slot_txt \in {"none", "0", "1"}
  /\ journal = ZeroJournal
  /\ pid \in LayoutPatchIds
  /\ patch = PatchArg(pid)
  /\ pc = "idle" /\ calls = 0
  /\ off = 0 /\ idx = 0 /\ active = 0 /\ j = ZeroJournal /\ cp = Cp0
  /\ status = "none" /\ retAt = ""
  /\ entry = Snapshot
  /\ hist = Hist0
  /\ chain = [orig |-> <<>>, cuts |-> 0]

SpecLayout == InitLayout /\ [][Next]_vars

\* C22: when tmd_copy_slot has returned OK (the call stands at journal_read),
\* every byte of the destination slot equals the byte of the source slot at
\* the same offset, whatever the slot size (0, below TMD_SCRATCH_SZ, not a
\* multiple of it), and the source slot is as it was when the call started.
C22_CloneCopiesSlot ==
  pc = "journal_read" =>
    LET src == SlotSrc(layout, active)
        dst == SlotDst(layout, active)
    IN  /\ \A k \in 0 .. (Nat32(src.size) - 1) :
             flash[dst.addr.lo + k] = flash[src.addr.lo + k]
        /\ SlotImage(flash, src) = SlotImage(entry.flash, src)

\* A clone of a slot whose size is not a multiple of the buffer, over a
\* destination that differed from the source, done in more than one pass.
C22_Witness ==
  /\ pc = "journal_read"
  /\ Nat32(SlotSrc(layout, active).size) = SlotBytes
  /\ SlotBytes % build.TMD_SCRATCH_SZ # 0
  /\ cp.remaining = 0 /\ cp.dst_off = SlotBytes
  /\ SlotImage(entry.flash, SlotDst(layout, active))
       # SlotImage(entry.flash, SlotSrc(layout, active))
  /\ SlotImage(flash, SlotDst(layout, active))
       = SlotImage(entry.flash, SlotSrc(layout, active))

\* The same for a slot smaller than the buffer, and for the empty slot.
C22_WitnessSmall ==
  /\ pc = "journal_read"
  /\ Nat32(SlotSrc(layout, active).size) \in {0, 1}

\* ------------------------------------------------------------------------
\* Applying a patch again
\* ------------------------------------------------------------------------

\* The images the patch aims at: its chunks laid over an image a slot can
\* hold before any apply.
TargetImages ==
  { PatchedImage(SlotImage(f, sl), Chunks) :
      f \in InitFlashes, sl \in {g_layout.slotA, g_layout.slotB} }

\* C23: a valid patch applied to a device whose active slot already holds
\* the patch's target image returns OK (no port operation failing), and when
\* it returns OK both slots hold the target image and the active slot has
\* flipped.
C23_IdempotentApply ==
  (/\ pc = "done" /\ (status = TMD_STATUS_OK \/ ~hist.failed)
   /\ WellFormed(pid) /\ EntryImage \in TargetImages) =>
    /\ status = TMD_STATUS_OK
    /\ SlotImage(flash, layout.slotA) = EntryImage
    /\ SlotImage(flash, layout.slotB) = EntryImage
    /\ posix_get_active_slot(active_slot_txt) = InactiveOf(entry.active)

\* The second apply of a patch with chunks, on the slot the first apply
\* produced and made active, has returned OK.
C23_Witness ==
  /\ pc = "done" /\ status = TMD_STATUS_OK /\ calls = 2
  /\ WellFormed(pid) /\ Len(Chunks) = 2
  /\ EntryImage \in TargetImages
  /\ EntryImage = PatchedImage([k \in 1..SlotBytes |-> 15 + k], Chunks)
  /\ EntryImage # [k \in 1..SlotBytes |-> 15 + k]
  /\ entry.active = 1
  /\ SlotImage(entry.flash, layout.slotA) # EntryImage
  /\ SlotImage(flash, layout.slotA) = EntryImage

\* ------------------------------------------------------------------------
\* tmd_rle_decode on its own
\* ------------------------------------------------------------------------

\* The encoder of the patch generator: maximal runs of equal bytes, none
\* longer than 256, each as (count, value) with count 0 for a run of 256.
RunAt(bytes, i) ==
  LET most == IF Len(bytes) - i + 1 > 256 THEN 256 ELSE Len(bytes) - i + 1
      same == {n \in 1..most : \A k \in 0..(n - 1) : bytes[i + k] = bytes[i]}
  IN  CHOOSE n \in same : \A m \in same : m <= n

RECURSIVE RleEncodeFrom(_, _)
RleEncodeFrom(bytes, i) ==
  IF i > Len(bytes) THEN <<>>
  ELSE <<RunAt(bytes, i) % 256, bytes[i]>>
       \o RleEncodeFrom(bytes, i + RunAt(bytes, i))

rle_encode(bytes) == RleEncodeFrom(bytes, 1)

MaxRleIn == 4

\* Encoded inputs: counts 0 (256), 1, 2 and ScratchBytes, and a value.
RleInputs ==
  UNION { [1..n -> {0, 1, 2, ScratchBytes, 170}] : n \in 0..MaxRleIn }

\* Plain sequences no longer than the buffer of the model.
ShortPlains == UNION { [1..n -> {0, 7, 255}] : n \in 0..ScratchBytes }

\* The default TMD_SCRATCH_SZ.
DefaultScratch == 1024

\* Plain sequences with runs around 256, no longer than the default buffer.
LongPlains ==
  { [k \in 1..255 |-> 7], [k \in 1..256 |-> 7], [k \in 1..257 |-> 7],
    [k \in 1..513 |-> IF k = 1 THEN 8 ELSE 7],
    [k \in 1..DefaultScratch |-> IF k <= 300 THEN 0 ELSE 255] }

NoRle == [rc |-> 0, out |-> <<>>, out_len |-> 0, ext |-> 0]

InitRle ==
  /\ probe \in
       [op : {"rle"}, kind : {"decode"}, plain : {<<>>}, in : RleInputs,
        cap : {ScratchBytes}, past : PastBytes, done : {FALSE}, out : {NoRle}]
       \cup
       [op : {"rle"}, kind : {"roundtrip"}, plain : ShortPlains, in : {<<>>},
        cap : {ScratchBytes}, past : PastBytes, done : {FALSE}, out : {NoRle}]
       \cup
       [op : {"rle"}, kind : {"roundtrip"}, plain : LongPlains, in : {<<>>},
        cap : {DefaultScratch}, past : {0}, done : {FALSE}, out : {NoRle}]
  /\ build = [DefaultBuild EXCEPT !.TMD_SCRATCH_SZ = probe.cap]
  /\ IdleDevice

\* tmd_rle_decode(enc_data, ch->len, scratch, sizeof(scratch), &data_len) on
\* an input that ends where the buffer ends.
RleDecode ==
  /\ probe.op = "rle" /\ probe.kind = "decode" /\ ~probe.done
  /\ probe' = [probe EXCEPT
                 !.out = tmd_rle_decode(probe.in, 0, Len(probe.in),
                                        build.TMD_SCRATCH_SZ, probe.past, build),
                 !.done = TRUE]
  /\ UNCHANGED <<build, device>>

\* The same on the encoding of probe.plain.
RleRoundTrip ==
  /\ probe.op = "rle" /\ probe.kind = "roundtrip" /\ ~probe.done
  /\ LET enc == rle_encode(probe.plain) IN
     probe' = [probe EXCEPT
                 !.in = enc,
                 !.out = tmd_rle_decode(enc, 0, Len(enc),
                                        build.TMD_SCRATCH_SZ, probe.past, build),
                 !.done = TRUE]
  /\ UNCHANGED <<build, device>>

NextRle == RleDecode \/ RleRoundTrip

SpecRle == InitRle /\ [][NextRle]_vars

\* C24: for every byte sequence no longer than the scratch capacity, decoding
\* its run-length encoding succeeds and gives back the sequence and its
\* length.
C24_RleRoundTrip ==
  (probe.op = "rle" /\ probe.kind = "roundtrip" /\ probe.done) =>
    /\ probe.out.rc = 0
    /\ probe.out.out = probe.plain
    /\ probe.out.out_len = Len(probe.plain)

\* A sequence of 513 bytes whose encoding has a run of 1 and two runs of 256,
\* decoded back.
C24_Witness ==
  /\ probe.op = "rle" /\ probe.kind = "roundtrip" /\ probe.done
  /\ Len(probe.plain) = 513
  /\ probe.in = <<1, 8, 0, 7, 0, 7>>
  /\ probe.out.rc = 0 /\ probe.out.out_len = 513

\* ------------------------------------------------------------------------
\* Chunks that end behind the slot
\* ------------------------------------------------------------------------

\* The decoded length of a chunk as the patch describes it.
DecodedLen(c) ==
  IF c.enc = 1 THEN RunSum(c.payload, 1) ELSE Len(c.payload)

\* off + decoded_len, as integers, exceeds the size of the slots.
EndsBehindSlot(c) == c.off.hi > 0 \/ c.off.lo + DecodedLen(c) > SlotBytes

\* The index (from 0) of the first chunk that ends behind the slot, in a
\* complete patch whose chunks before it are good and which itself is
\* RAW or RLE, intact and decodable; -1 if there is none.
FirstBehindSlot ==
  LET t   == patch.desc
      bad == {n \in 1..Len(t.chunks) :
                /\ EndsBehindSlot(t.chunks[n])
                /\ t.chunks[n].enc \in {0, 1}
                /\ t.chunks[n].flip = Zero32
                /\ t.chunks[n].enc = 1 =>
                     /\ DecodedLen(t.chunks[n]) <= ScratchBytes
                     /\ Len(t.chunks[n].payload) % 2 = 0
                /\ \A m \in 1..(n - 1) : t.chunks[m].good}
  IN  IF t.early # "" \/ t.cut # 0 \/ t.n_extra # 0 \/ bad = {} THEN -1
      ELSE (CHOOSE n \in bad : \A m \in bad : n <= m) - 1

\* C25: a chunk k whose off + decoded_len exceeds the destination slot size
\* is never written, nor is any later chunk, the journal is not cleared and
\* set_active_slot is not invoked; the call, unless a port operation failed
\* before, returns ERR_PARAM with chunks 0..k-1 written and the active slot
\* unchanged.
C25_ChunkBehindSlotIsParamError ==
  FirstBehindSlot >= 0 =>
    /\ \A n \in hist.written : n < FirstBehindSlot
    /\ ~hist.cleared /\ ~hist.setCalled
    /\ (pc = "done" /\ ~hist.failed) =>
         /\ status = TMD_STATUS_ERR_PARAM
         /\ hist.written = 0 .. (FirstBehindSlot - 1)
         /\ posix_get_active_slot(active_slot_txt) = entry.active

\* ------------------------------------------------------------------------
\* Port failures
\* ------------------------------------------------------------------------

\* C26: once flash_erase, flash_read, flash_write or set_active_slot has
\* returned false the call has returned ERR_FLASH: it stands at no port
\* operation any more, neither the failed one again nor a later one.
C26_FailFastOnPortFailure ==
  hist.flashFailed => pc = "done" /\ status = TMD_STATUS_ERR_FLASH

\* The flash_write of the second chunk failed, after the clone, the first
\* chunk and its journal record.
C26_Witness ==
  /\ pc = "done" /\ status = TMD_STATUS_ERR_FLASH /\ hist.flashFailed
  /\ retAt = "chunk_write"
  /\ hist.written = {0} /\ Len(hist.jwrites) = 1 /\ Len(hist.cwrites) = 2
  /\ ~hist.cleared /\ ~hist.setCalled

\* ------------------------------------------------------------------------
\* Slots of different sizes
\* ------------------------------------------------------------------------

\* C27: with slot A and slot B of different sizes no call invokes a flash
\* erase or write, a journal write or clear or set_active_slot, both slots,
\* the journal and the active-slot indicator stay as they were, and a patch
\* that passes the header and guardrail checks gets ERR_PARAM.
C27_SlotSizeMismatchIsParamError ==
  (layout.slotA.size # layout.slotB.size /\ pc # "idle") =>
    /\ pc = "done" /\ NothingMutated
    /\ ~hist.failed /\ hist.jfound = ZeroJournal
    /\ patch.desc.early = "" =>
         status = TMD_STATUS_ERR_PARAM /\ retAt = "slot_size"

\* A patch with a chunk, on a layout whose destination slot is larger than
\* the source slot, rejected at the slot size check.
C27_Witness ==
  /\ pc = "done" /\ status = TMD_STATUS_ERR_PARAM /\ retAt = "slot_size"
  /\ pid = 2
  /\ Gt32(SlotDst(layout, active).size, SlotSrc(layout, active).size)
  /\ Nat32(SlotSrc(layout, active).size) > 0
  /\ NothingMutated

\* ------------------------------------------------------------------------
\* Bytes behind the last chunk
\* ------------------------------------------------------------------------

\* The patch holds its header, its meta block and chunks_n whole chunks.
WholePatch ==
  LET t == patch.desc
  IN  ~t.null /\ t.cut = 0 /\ t.n_extra = 0 /\ t.meta_extra = 0

\* The patch up to the end of chunk chunks_n-1.
UpToLastChunk ==
  SubSeq(patch.bytes, 1, Len(patch.bytes) - Len(patch.desc.tail))

\* Bytes appended behind the last chunk.
Appended == {<<>>, <<9>>, <<8, 8>>}

\* What a chunk iteration hands on: the status, the data and address of the
\* flash_write and the offset of the next chunk.
StepOutcome(r) ==
  [st |-> r.st, at |-> r.at, data |-> r.data, addr |-> r.addr, off |-> r.off]

\* C28: two patches that are the same up to the end of chunk chunks_n-1 and
\* differ only in the bytes appended give the same status, flash, journal and
\* active slot: at the checks before the clone and at every chunk iteration,
\* the only places that look at the patch, the core decides and writes the
\* same for every appended tail.
C28_TrailingBytesIgnored ==
  WholePatch =>
    \A e \in Appended :
      LET p9 == [patch EXCEPT !.bytes = UpToLastChunk \o <<9>>]
          pe == [patch EXCEPT !.bytes = UpToLastChunk \o e]
          dst == SlotDst(layout, active)
      IN  /\ pc = "idle" => Preflight(pe, build) = Preflight(p9, build)
          /\ pc = "chunk" =>
               /\ tmd_hdr_t(pe.bytes).chunks_n = tmd_hdr_t(p9.bytes).chunks_n
               /\ \A past \in PastBytes :
                    StepOutcome(ChunkStep(pe.bytes, off, build, dst, past))
                      = StepOutcome(ChunkStep(p9.bytes, off, build, dst, past))

\* ------------------------------------------------------------------------
\* Properties of tmd_rle_decode
\* ------------------------------------------------------------------------

\* What the caller gets from tmd_rle_decode: the value returned, the bytes
\* written to out and *out_len.
RleResult(r) == [rc |-> r.rc, out |-> r.out, out_len |-> r.out_len]

\* C29: for an input of odd length n the decoder gives the same status,
\* decoded bytes and decoded length as for the first n-1 bytes alone.
C29_OddTrailingByteIgnored ==
  (probe.op = "rle" /\ probe.kind = "decode" /\ probe.done
     /\ Len(probe.in) % 2 = 1) =>
    LET n == Len(probe.in) IN
    RleResult(probe.out)
      = RleResult(tmd_rle_decode(SubSeq(probe.in, 1, n - 1), 0, n - 1,
                                 build.TMD_SCRATCH_SZ, probe.past, build))

\* The runs of the (count, value) pairs of an input laid end to end.
RECURSIVE Expand(_, _)
Expand(in, i) ==
  IF i + 1 > Len(in) THEN <<>>
  ELSE [k \in 1..(IF in[i] = 0 THEN 256 ELSE in[i]) |-> in[i + 1]]
       \o Expand(in, i + 2)

\* C30: the decoder expands each pair (count, value) of its input to count
\* copies of value (256 for count 0) and returns the sum of the runs as the
\* decoded length; it fails exactly when that sum exceeds the capacity (a sum
\* equal to the capacity is accepted) and never writes beyond the capacity.
C30_DecodeExpandsPairs ==
  (probe.op = "rle" /\ probe.kind = "decode" /\ probe.done) =>
    /\ Len(probe.out.out) <= probe.cap
    /\ probe.out.rc = IF RunSum(probe.in, 1) > probe.cap THEN -1 ELSE 0
    /\ probe.out.rc = 0 =>
         /\ probe.out.out = Expand(probe.in, 1)
         /\ probe.out.out_len = RunSum(probe.in, 1)

\* ------------------------------------------------------------------------
\* The order of the checks of one chunk
\* ------------------------------------------------------------------------

\* What the wire format asks for the chunk whose header stands at offset o of
\* buf, all in integers: the status of the first of the checks that fails, or
\* "write" when none does.  scratch is the capacity of the scratch buffer,
\* size the size of the destination slot.
ExpectedChunk(buf, o, scratch, size) ==
  LET left == Len(buf) - o IN
  IF left < 8 THEN TMD_STATUS_ERR_HDR
  ELSE
  LET len    == buf[o + 5] + 256 * buf[o + 6]
      enc    == buf[o + 7]
      crcLen == IF buf[o + 8] # 0 THEN 4 ELSE 0
  IN
  IF left - 8 < crcLen THEN TMD_STATUS_ERR_HDR
  ELSE IF left - 8 - crcLen < len THEN TMD_STATUS_ERR_HDR
  ELSE
  LET payload == Slice(buf, o + 8 + crcLen, len)
      decoded == IF enc = 1 THEN RunSum(payload, 1) ELSE len
  IN
  IF crcLen = 4 /\ U32Bytes(crc32_sw(payload)) # Slice(buf, o + 8, 4)
  THEN TMD_STATUS_ERR_INTEGRITY
  ELSE IF enc \notin {0, 1} THEN TMD_STATUS_ERR_UNSUPPORTED
  ELSE IF enc = 1 /\ decoded > scratch THEN TMD_STATUS_ERR_HDR
  ELSE IF buf[o + 3] # 0 \/ buf[o + 4] # 0
          \/ buf[o + 1] + 256 * buf[o + 2] + decoded > size
  THEN TMD_STATUS_ERR_PARAM
  ELSE "write"

\* C31: per chunk the checks run in the order header bytes, CRC bytes,
\* payload bytes (ERR_HDR), CRC value (ERR_INTEGRITY), encoding
\* (ERR_UNSUPPORTED) or RLE decoding (ERR_HDR), destination range (ERR_PARAM),
\* flash_write (ERR_FLASH); the first that fails gives the status of the
\* call, and flash_write is invoked for the chunk only when every check
\* before it has passed.
C31_ChunkCheckOrder ==
  [][(pc = "chunk" /\ pc' # "idle") =>
       LET want == ExpectedChunk(patch.bytes, off, build.TMD_SCRATCH_SZ,
                                 Nat32(SlotDst(layout, active).size))
       IN  IF want # "write"
           THEN /\ pc' = "done" /\ status' = want
                /\ hist'.cwrites = hist.cwrites
                /\ flash' = flash /\ stray' = stray
           ELSE /\ Len(hist'.cwrites) = Len(hist.cwrites) + 1
                /\ status' \in {"none", TMD_STATUS_ERR_FLASH}
                /\ (status' = TMD_STATUS_ERR_FLASH) = hist'.flashFailed]_vars

\* ------------------------------------------------------------------------
\* Reads of the borrowed patch buffer
\* ------------------------------------------------------------------------

\* C32: every index of the patch buffer that the call reads is below
\* patch_len: the chunk headers, CRC fields and payloads (the RLE decoder's
\* reads included) end at or before patch_len, and so do the tag, len and
\* value bytes read by the TLV walk.
C32_ReadsInsidePatch ==
  /\ hist.ext <= Len(patch.bytes)
  /\ (pc = "done"
      /\ Preflight(patch, build).at \notin {"param", "version", "algo",
                                            "meta_len"}) =>
       \A o \in tmd_parse_meta_reads(patch.bytes, HdrSize,
                                     tmd_hdr_t(patch.bytes).meta_len) :
         HdrSize + o < Len(patch.bytes)

\* ------------------------------------------------------------------------
\* Failures of the journal operations
\* ------------------------------------------------------------------------

\* C33: when a call returns OK in a build with journaling, the record stored
\* at meta_addr is not a valid one, journal_clear succeeded and every
\* journal_write of the call succeeded (one record per chunk written); and
\* set_active_slot is not invoked after a journal_write or journal_clear that
\* returned false.
C33_JournalFailuresReported ==
  /\ (pc = "done" /\ status = TMD_STATUS_OK /\ build.TMD_FEAT_JOURNAL = 1) =>
       /\ journal.magic # TMD_JOURNAL_MAGIC
       /\ hist.cleared
       /\ Len(hist.jwrites) = Cardinality(hist.written)
  /\ (hist.setCalled /\ build.TMD_FEAT_JOURNAL = 1) =>
       /\ hist.cleared
       /\ Len(hist.jwrites) = Cardinality(hist.written)

\* ------------------------------------------------------------------------
\* The chunk loop in the four integrity builds
\* ------------------------------------------------------------------------

\* Patches with and without CRC fields: one RAW chunk, one RAW chunk with a
\* CRC, an RLE chunk with a CRC followed by a RAW chunk, and a RAW chunk
\* followed by one whose stored CRC is wrong.
BuildPatchIds == {2, 7, 10, 27}

InitBuilds ==
  /\ build \in IntegrityBuilds
  /\ probe = NoProbe
  /\ layout = g_layout
  /\ flash \in InitFlashes
  /\ stray = {}
  /\ active_slot_txt \in {"none", "0", "1"}
  /\ journal = ZeroJournal
  /\ pid \in BuildPatchIds
  /\ patch = PatchArg(pid)
  /\ pc = "idle" /\ calls = 0
  /\ off = 0 /\ idx = 0 /\ active = 0 /\ j = ZeroJournal /\ cp = Cp0
  /\ status = "none" /\ retAt = ""
  /\ entry = Snapshot
  /\ hist = Hist0
  /\ chain = [orig |-> <<>>, cuts |-> 0]

SpecBuilds == InitBuilds /\ [][Next]_vars

\* C34: in every build a chunk is parsed as the wire format lays it out.  At
\* a chunk that the chunks before it lead to in every build (none of them
\* has a CRC field), what a CRC32 build decodes and writes and where it goes
\* on is what the build at hand decodes and writes and where it goes on.
C34_ChunkParsingSameInEveryBuild ==
  (pc = "chunk" /\ \A n \in 1..idx : Chunks[n].has_crc = 0) =>
    \A past \in PastBytes :
      LET dst  == SlotDst(layout, active)
          here == ChunkStep(patch.bytes, off, build, dst, past)
          crc  == ChunkStep(patch.bytes, off,
                            [build EXCEPT !.TMD_FEAT_CRC32 = 1], dst, past)
      IN  crc.st = TMD_STATUS_OK =>
            /\ here.st = TMD_STATUS_OK
            /\ here.data = crc.data
            /\ here.addr = crc.addr
            /\ here.off = crc.off

\* ------------------------------------------------------------------------
\* The single read of the active slot
\* ------------------------------------------------------------------------

\* Values of get_active_slot other than 0.
NonzeroSlots == {1, 2, 128, 255}

\* C35: get_active_slot is invoked at most once in a call, and the value it
\* gave decides everything else: the clone reads the slot read as active,
\* the erase, the clone writes and every chunk write address the other slot
\* (its addr plus the offset), and set_active_slot is passed the index of
\* that other slot, which is the one get_active_slot gives after OK.  Any
\* value other than 0 names slot B as active and slot A as the destination.
C35_ActiveSlotReadOnce ==
  LET was == entry.active
      src == SlotOf(was)
      dst == SlotOf(InactiveOf(was))
  IN  /\ hist.getCalls <= 1
      /\ hist.getCalls = 1 => active = was
      /\ src # dst
      /\ \A n \in 1..Len(hist.erases) : hist.erases[n].addr = dst.addr
      /\ pc = "clone_write" =>
           /\ cp.buf = posix_flash_read(entry.flash,
                                        Add32(src.addr, N32(cp.src_off)),
                                        Len(cp.buf))
           /\ cp.dst_off = cp.src_off
      /\ pc = "journal_read" => SlotImage(flash, dst) = EntryImage
      /\ \A n \in 1..Len(hist.cwrites) :
           hist.cwrites[n].addr = Add32(dst.addr, hist.cwrites[n].ch_off)
      /\ hist.setCalled =>
           /\ hist.setArg = InactiveOf(was) /\ hist.setArg # was
           /\ SlotOf(hist.setArg) = dst
      /\ (pc = "done" /\ status = TMD_STATUS_OK) =>
           posix_get_active_slot(active_slot_txt) = hist.setArg
      /\ \A a \in NonzeroSlots :
           /\ InactiveOf(a) = 0
           /\ SlotSrc(layout, a) = layout.slotB
           /\ SlotDst(layout, a) = layout.slotA

\* Slot B was read as active: slot A has been cloned from it, has taken two
\* chunks and has been committed with index 0.
C35_Witness ==
  /\ pc = "done" /\ status = TMD_STATUS_OK
  /\ entry.active = 1 /\ hist.getCalls = 1
  /\ Len(hist.cwrites) = 2
  /\ hist.cwrites[2].addr = Add32(layout.slotA.addr, hist.cwrites[2].ch_off)
  /\ hist.setArg = 0
  /\ posix_get_active_slot(active_slot_txt) = 0

\* ------------------------------------------------------------------------
\* The order of erase, clone, journal and chunks
\* ------------------------------------------------------------------------

\* The steps of tmd_copy_slot.
Cloning == pc \in {"erase", "clone_read", "clone_write"}

\* C36: a call invokes flash_erase at most once, and a call that gets as far
\* as the clone exactly once, for the whole destination slot (dst.addr,
\* dst.size) and before any flash_write; while the clone is under way no
\* chunk has been written and no journal operation has been invoked; and
\* once a chunk write or a journal operation has happened the clone is
\* complete.
C36_EraseCloneJournalOrder ==
  LET dst == SlotOf(InactiveOf(entry.active))
  IN  /\ Len(hist.erases) <= 1
      /\ pc = "erase" => hist.erases = <<>> /\ hist.ops = 0
      /\ (hist.ops > 0 \/ pc \in {"clone_read", "clone_write", "journal_read"}) =>
           hist.erases = <<[addr |-> dst.addr, len |-> dst.size]>>
      /\ (pc = "clone_read" /\ cp.dst_off = 0) =>
           \A k \in 0 .. (Nat32(dst.size) - 1) : flash[dst.addr.lo + k] = 255
      /\ Cloning =>
           /\ hist.cwrites = <<>>
           /\ hist.jops = 0 /\ hist.jwrites = <<>> /\ ~hist.cleared
           /\ journal = entry.journal
      /\ (hist.cwrites # <<>> \/ hist.jops > 0) =>
           /\ cp.remaining = 0
           /\ cp.dst_off = Nat32(dst.size)
           /\ ~Cloning

\* A call that erased slot B once, cloned it in two passes, read the journal,
\* wrote two chunks and their records and cleared the journal.
C36_Witness ==
  /\ pc = "done" /\ status = TMD_STATUS_OK /\ entry.active = 0
  /\ hist.erases = <<[addr |-> N32(SlotBytes), len |-> N32(SlotBytes)]>>
  /\ cp.dst_off = SlotBytes /\ cp.remaining = 0
  /\ Len(hist.cwrites) = 2 /\ hist.jops = 4
  /\ flash[SlotBytes] # 255

\* ------------------------------------------------------------------------
\* Termination
\* ------------------------------------------------------------------------

\* A scratch buffer large enough for the index of tmd_rle_decode to wrap:
\* more than 65536 / 2 runs of one byte fit.
WrapScratch == 32770

\* States of the loop of tmd_rle_decode near the end of an input of in_len
\* bytes made of (1, value) pairs: after i / 2 iterations i bytes have been
\* read and i / 2 bytes written.
LoopProbes ==
  [op : {"rleloop"}, in_len : {65534, 65535}, i : {65530, 65532, 65534},
   cap : {WrapScratch}, past : PastBytes, done : {FALSE},
   out : {[rc |-> 0, out_len |-> 0, written |-> 0]}]

\* A device as flashed at the factory (slot B erased, no active_slot.txt or
\* one that names slot B, an empty journal) that is given patches, or a
\* decoder in the middle of its loop on a device that has made its calls.
InitLive ==
  \/ /\ build = DefaultBuild /\ InitCommon
     /\ journal = ZeroJournal
     /\ flash[SlotBytes] = 255
     /\ active_slot_txt # "0"
  \/ /\ probe \in LoopProbes
     /\ build = [DefaultBuild EXCEPT !.TMD_SCRATCH_SZ = probe.cap]
     /\ layout = g_layout
     /\ flash = [a \in FlashCells |-> 255]
     /\ stray = {}
     /\ active_slot_txt = "none"
     /\ journal = ZeroJournal
     /\ pid = 1
     /\ patch = PatchArg(1)
     /\ pc = "idle" /\ calls = MaxCalls
     /\ off = 0 /\ idx = 0 /\ active = 0 /\ j = ZeroJournal /\ cp = Cp0
     /\ status = "none" /\ retAt = ""
     /\ entry = Snapshot
     /\ hist = Hist0
     /\ chain = [orig |-> <<>>, cuts |-> 0]

\* The rest of the loop of tmd_rle_decode from the state of the probe.
RleResume ==
  /\ probe.op = "rleloop" /\ ~probe.done
  /\ LET in == [k \in 1..probe.in_len |-> 1]
         o  == [k \in 1..(probe.i \div 2) |-> 1]
         r  == RleLoop(in, 0, probe.in_len, build.TMD_SCRATCH_SZ, probe.past,
                       probe.i, o, probe.i)
     IN  probe' = [probe EXCEPT
                     !.out = [rc |-> r.rc, out_len |-> r.out_len,
                              written |-> Len(r.out)],
                     !.done = TRUE]
  /\ UNCHANGED <<build, device>>

\* A step of a call that is under way: each is a port call that returns and
\* the code up to the next one.
CallStep ==
  \/ Erase
  \/ CloneRead
  \/ CloneWrite
  \/ JournalRead
  \/ ChunkWrite
  \/ JournalWrite
  \/ JournalClear
  \/ SetActive

NextLive ==
  \/ Call
  \/ CallStep
  \/ Return
  \/ RleResume

\* No power loss, and the code goes on after every port call.
SpecLive ==
  InitLive /\ [][NextLive]_vars /\ WF_vars(CallStep) /\ WF_vars(RleResume)

StatusCodes ==
  { TMD_STATUS_OK, TMD_STATUS_ERR_PARAM, TMD_STATUS_ERR_HDR,
    TMD_STATUS_ERR_INTEGRITY, TMD_STATUS_ERR_GUARDRAIL, TMD_STATUS_ERR_FLASH,
    TMD_STATUS_ERR_UNSUPPORTED, TMD_STATUS_ERR_INTERNAL }

\* C37: every call returns, with one of the eight status codes, whatever the
\* patch and whichever port calls fail, as long as each port call returns;
\* and the loop of tmd_rle_decode comes to an end, with 0 or -1 and no more
\* than out_cap bytes written, also when its 16-bit index wraps to 0 at the
\* end of an input of 65535 bytes.
C37_ApplyTerminates ==
  /\ [](pc = "done" => status \in StatusCodes)
  /\ (pc \notin {"idle", "done"}) ~> (pc = "done")
  /\ (probe.op = "rleloop") ~> (probe.op = "rleloop" /\ probe.done)
  /\ [](probe.op = "rleloop" /\ probe.done =>
          /\ probe.out.rc \in {0, -1}
          /\ probe.out.written <= probe.cap)

\* The index wrapped: the input of 65535 bytes was read to its end and the
\* loop went on from index 0 until the output was full.
C37_Witness ==
  /\ probe.op = "rleloop" /\ probe.done
  /\ probe.in_len = 65535 /\ probe.i = 65532
  /\ probe.out.rc = -1
  /\ probe.out.written = probe.cap
  /\ probe.out.written > 65536 \div 2

\* A call with a TLV block, a clone in two passes and two chunks, one of them
\* RLE, has returned.
C37_WitnessApply ==
  /\ pc = "done" /\ status = TMD_STATUS_OK
  /\ Len(Chunks) = 2 /\ Chunks[1].enc = 1
  /\ cp.dst_off = SlotBytes /\ hist.written = {0, 1}

====
